---- MODULE Spec2Model ----
(***************************************************************************)
(* Model of the httpsp incremental HTTP/1.x message parser.                *)
(*                                                                         *)
(* A buffer is a record [pad, s]: s holds the bytes (one-character         *)
(* strings) that follow pad unread bytes, so that Go's buf[i] is the       *)
(* character i - pad + 1 of s and len(buf) is pad + Len(s).  Every parser  *)
(* is an operator from (buffer, offset, parser struct) to a record         *)
(* [o, err, <struct>], as the Go functions return (offset, error) and      *)
(* write through the struct pointer.                                       *)
(***************************************************************************)
EXTENDS Integers, Sequences, FiniteSets, TLC

VARIABLES
    buf,    \* the bytes that will arrive, as a buffer record
    truth,  \* how buf was put together (offsets and framing by construction)
    blen,   \* len(buf) of the slice the caller passes: the bytes arrived so far
    msg,    \* the PMsg
    offs,   \* the offset returned by the last call
    err,    \* the ErrorHdr returned by the last call
    op,     \* the last operation
    flg,    \* the flags of the last call
    pure,   \* only ParseMsg calls with flags 0 on strictly growing slices so far
    bt      \* the last BodyType query and its result

vars == <<buf, truth, blen, msg, offs, err, op, flg, pure, bt>>

----------------------------------------------------------------------------
(* ErrorHdr values.  ErrPanic stands for a Go run-time panic (index out of *)
(* range, PField "invalid range"): the call never returns.                 *)
ErrHdrOk == "Ok"
ErrHdrMoreBytes == "MoreBytes"
ErrHdrMoreValues == "MoreValues"
ErrHdrEmpty == "Empty"
ErrHdrEOH == "EOH"
ErrHdrBadChar == "BadChar"
ErrHdrValNotNumber == "ValNotNumber"
ErrHdrNumTooBig == "NumTooBig"
ErrHdrNoCLen == "NoCLen"
ErrHdrTrunc == "Trunc"
ErrHdrBug == "Bug"
ErrPanic == "Panic"

----------------------------------------------------------------------------
(* Bytes *)

PrintLo == " !\"#$%&'(" \o ")" \o "*+,-./0123456789:;<=>?@ABCDEFGHIJKLMNOPQRSTUVWXYZ[\\]^_"

PrintHi == "abcdefghijklmnopqrstuvwxyz{|}~"

Chr(n) == IF n < 96 THEN SubSeq(PrintLo, n - 31, n - 31) ELSE SubSeq(PrintHi, n - 96, n - 96)

Codes == (32..126) \ {96}

OrdTab == [c \in {Chr(n) : n \in Codes} |-> CHOOSE n \in Codes : Chr(n) = c]

Ord(c) == CASE c = "\t" -> 9
            [] c = "\n" -> 10
            [] c = "\f" -> 12
            [] c = "\r" -> 13
            [] OTHER -> OrdTab[c]

ByteToLower(c) ==
    LET Lower(n) == IF n >= 65 /\ n <= 90 THEN Chr(n + 32) ELSE c IN Lower(Ord(c))

RECURSIVE CmpEqFrom(_, _, _)
CmpEqFrom(a, b, k) ==
    IF k > Len(a) THEN TRUE
    ELSE IF ByteToLower(SubSeq(a, k, k)) # ByteToLower(SubSeq(b, k, k)) THEN FALSE
    ELSE CmpEqFrom(a, b, k + 1)

CmpEq(a, b) == Len(a) = Len(b) /\ CmpEqFrom(a, b, 1)

BLen(b) == b.pad + Len(b.s)

At(b, i) == SubSeq(b.s, i - b.pad + 1, i - b.pad + 1)

Slice(b, from, to) == SubSeq(b.s, from - b.pad + 1, to - b.pad)

IsWS(c) == c = " " \/ c = "\t"

IsEOL(c) == c = "\r" \/ c = "\n"

IsDigit(c) == c \in {"0", "1", "2", "3", "4", "5", "6", "7", "8", "9"}

IsSpecial(c) == c \in {"(", ")", "<", ">", "@", ":", "\\", "\"", "[", "]", "?", "=", "{", "}"}

----------------------------------------------------------------------------
(* PField: 16-bit offset and length.  A field set to an invalid range      *)
(* (the Go code panics) is the poisoned field PFPanic.                     *)

OffsTMod == 65536

PFPanic == [Offs |-> -1, Len |-> -1]

PFZero == [Offs |-> 0, Len |-> 0]

PFSet(start, end) ==
    IF end < start THEN PFPanic
    ELSE [Offs |-> start % OffsTMod, Len |-> (end - start) % OffsTMod]

PFExtend(p, newEnd) ==
    IF p = PFPanic \/ newEnd < p.Offs THEN PFPanic
    ELSE [Offs |-> p.Offs, Len |-> ((newEnd % OffsTMod) - p.Offs) % OffsTMod]

PFEmpty(p) == p.Len = 0

EndOffs(p) == p.Offs + p.Len

OffsIn(p, o) == o >= p.Offs /\ o < EndOffs(p)

GetPField(b, f) == Slice(b, f.Offs, f.Offs + f.Len)

----------------------------------------------------------------------------
(* Lexical primitives *)

RECURSIVE skipToken(_, _)
skipToken(b, i) ==
    IF i >= BLen(b) THEN i
    ELSE IF IsWS(At(b, i)) \/ IsEOL(At(b, i)) THEN i
    ELSE skipToken(b, i + 1)

RECURSIVE skipTokenDelim(_, _, _)
skipTokenDelim(b, i, delim) ==
    IF i >= BLen(b) THEN i
    ELSE IF IsWS(At(b, i)) \/ IsEOL(At(b, i)) \/ At(b, i) = delim THEN i
    ELSE skipTokenDelim(b, i + 1, delim)

RECURSIVE skipWS(_, _)
skipWS(b, i) ==
    IF i >= BLen(b) THEN i
    ELSE IF IsWS(At(b, i)) THEN skipWS(b, i + 1)
    ELSE i

skipCRLF(b, i) ==
    IF i >= BLen(b) THEN [o |-> i, crl |-> 0, err |-> ErrHdrMoreBytes]
    ELSE IF At(b, i) = "\r" THEN
        IF i + 1 >= BLen(b) THEN [o |-> i, crl |-> 0, err |-> ErrHdrMoreBytes]
        ELSE IF At(b, i + 1) = "\n" THEN [o |-> i + 2, crl |-> 2, err |-> ErrHdrOk]
        ELSE [o |-> i + 1, crl |-> 1, err |-> ErrHdrOk]
    ELSE IF At(b, i) = "\n" THEN [o |-> i + 1, crl |-> 1, err |-> ErrHdrOk]
    ELSE [o |-> i, crl |-> 0, err |-> ErrHdrBadChar]

RECURSIVE skipLWS(_, _, _)
skipLWS(b, i, flags) ==
    IF i >= BLen(b) THEN [n |-> i, crl |-> 0, err |-> ErrHdrMoreBytes]
    ELSE IF IsWS(At(b, i)) THEN skipLWS(b, i + 1, flags)
    ELSE IF IsEOL(At(b, i)) THEN
        LET AfterCRLF(e) ==
                IF e.err # ErrHdrOk \/ e.o >= BLen(b)
                    THEN [n |-> i, crl |-> 0, err |-> ErrHdrMoreBytes]
                ELSE IF IsWS(At(b, e.o)) THEN skipLWS(b, e.o + 1, flags)
                ELSE [n |-> i, crl |-> e.crl, err |-> ErrHdrEOH]
        IN AfterCRLF(skipCRLF(b, i))
    ELSE [n |-> i, crl |-> 0, err |-> ErrHdrOk]

RECURSIVE skipLine(_, _)
skipLine(b, i) ==
    IF i >= BLen(b) THEN [o |-> i, crl |-> 0, err |-> ErrHdrMoreBytes]
    ELSE IF IsEOL(At(b, i)) THEN
        LET AfterCRLF(e) ==
                IF e.err # ErrHdrOk THEN [o |-> i, crl |-> 0, err |-> ErrHdrMoreBytes]
                ELSE e
        IN AfterCRLF(skipCRLF(b, i))
    ELSE skipLine(b, i + 1)

HexDigits == "0123456789abcdef"

HexVal(c) ==
    LET Digit(l) ==
            IF \E k \in 1..16 : SubSeq(HexDigits, k, k) = l
            THEN (CHOOSE k \in 1..16 : SubSeq(HexDigits, k, k) = l) - 1
            ELSE -1
    IN Digit(ByteToLower(c))

(* hexToU saturates: more than 16 significant hex digits do not fit 64   *)
(* bits.  Values of 8 to 16 significant digits are all represented by    *)
(* HugeSize, which is larger than any buffer of the model.               *)
HugeSize == 1000000000

RECURSIVE hexToUFrom(_, _, _, _)
hexToUFrom(str, k, acc, sig) ==
    IF k > Len(str) THEN [v |-> acc, ok |-> TRUE]
    ELSE LET Add(d) ==
                 LET nsig == IF sig = 0 /\ d = 0 THEN 0 ELSE sig + 1
                 IN IF d < 0 \/ nsig > 16 THEN [v |-> 0, ok |-> FALSE]
                    ELSE IF nsig > 7 THEN hexToUFrom(str, k + 1, HugeSize, nsig)
                    ELSE hexToUFrom(str, k + 1, acc * 16 + d, nsig)
         IN Add(HexVal(SubSeq(str, k, k)))

hexToU(str) == hexToUFrom(str, 1, 0, 0)

----------------------------------------------------------------------------
(* HTTP methods *)

MUndef == 0
MGet == 1
MHead == 2
MPost == 3
MPut == 4
MDelete == 5
MConnect == 6
MOptions == 7
MTrace == 8
MPatch == 9
MOther == 10

Method2Name == <<"GET", "HEAD", "POST", "PUT", "DELETE", "CONNECT", "OPTIONS", "TRACE", "PATCH">>

mthBitsLen == 2
mthBitsFChar == 3

hashMthName(n) ==
    (Ord(ByteToLower(SubSeq(n, 1, 1))) % (2 ^ mthBitsFChar))
        + ((Len(n) % (2 ^ mthBitsLen)) * (2 ^ mthBitsFChar))

GetMethodNo(str) ==
    LET Lookup(i) ==
            LET Pick(hit) == IF hit = {} THEN MOther ELSE CHOOSE m \in hit : TRUE
            IN Pick({m \in 1..(MOther - 1) :
                        hashMthName(Method2Name[m]) = i /\ Method2Name[m] = str})
    IN Lookup(hashMthName(str))

----------------------------------------------------------------------------
(* First line *)

flInit == 0
flReqMethod == 1
flReqURI == 2
flReqVer == 3
flRplStatus == 4
flRplReason == 5
flCRLF == 6
flFIN == 7

httpVerPref == "HTTP/"
httpVerSP == "HTTP/1.0 "

PFLineZero ==
    [Status |-> 0, MethodNo |-> MUndef, Method |-> PFZero, URI |-> PFZero,
     Version |-> PFZero, StatusCode |-> PFZero, Reason |-> PFZero, state |-> flInit]

FLRequest(fl) == fl.Status = 0

FLParsed(fl) == fl.state = flFIN

FLRet(o, e, pl) == [o |-> o, err |-> e, pl |-> pl]

FLEndOk(i, pl) == FLRet(i, ErrHdrOk, [pl EXCEPT !.state = flFIN])

(* bytescase.Prefix: case-insensitive match of the whole prefix *)
BytesPrefix(pref, b, i) ==
    i + Len(pref) <= BLen(b) /\ CmpEq(pref, Slice(b, i, i + Len(pref)))

FLCRLFState(b, i, pl) ==
    LET AfterCRLF(e) ==
            IF e.err # ErrHdrOk THEN FLRet(e.o, e.err, pl)
            ELSE FLEndOk(e.o, pl)
    IN AfterCRLF(skipCRLF(b, i))

FLReqVerState(b, i0, pl) ==
    LET Extended(i, pl1) ==
            IF PFEmpty(pl1.Version) THEN FLRet(i, ErrHdrBadChar, pl1)
            ELSE FLCRLFState(b, i, [pl1 EXCEPT !.state = flCRLF])
        AfterToken(i) ==
            IF i >= BLen(b) THEN FLRet(i, ErrHdrMoreBytes, pl)
            ELSE IF ~IsEOL(At(b, i)) THEN FLRet(i, ErrHdrBadChar, pl)
            ELSE Extended(i, [pl EXCEPT !.Version = PFExtend(@, i)])
    IN AfterToken(skipToken(b, i0))

FLReqURIState(b, i0, pl) ==
    LET Extended(i, pl1) ==
            IF PFEmpty(pl1.URI) THEN FLRet(i, ErrHdrBadChar, pl1)
            ELSE FLReqVerState(b, i + 1,
                    [pl1 EXCEPT !.state = flReqVer, !.Version = PFSet(i + 1, i + 1)])
        AfterToken(i) ==
            IF i >= BLen(b) THEN FLRet(i, ErrHdrMoreBytes, pl)
            ELSE IF At(b, i) # " " THEN FLRet(i, ErrHdrBadChar, pl)
            ELSE Extended(i, [pl EXCEPT !.URI = PFExtend(@, i)])
    IN AfterToken(skipToken(b, i0))

FLReqMethodState(b, i0, pl) ==
    LET Extended(i, pl1) ==
            IF PFEmpty(pl1.Method) THEN FLRet(i, ErrHdrBadChar, pl1)
            ELSE FLReqURIState(b, i + 1,
                    [pl1 EXCEPT !.MethodNo = GetMethodNo(GetPField(b, pl1.Method)),
                                !.state = flReqURI, !.URI = PFSet(i + 1, i + 1)])
        AfterToken(i) ==
            IF i >= BLen(b) THEN FLRet(i, ErrHdrMoreBytes, pl)
            ELSE IF At(b, i) # " " THEN FLRet(i, ErrHdrBadChar, pl)
            ELSE Extended(i, [pl EXCEPT !.Method = PFExtend(@, i)])
    IN AfterToken(skipToken(b, i0))

FLRplReasonState(b, i0, pl) ==
    LET AfterLine(e) ==
            IF e.err # ErrHdrOk THEN FLRet(e.o, e.err, pl)
            ELSE FLEndOk(e.o, [pl EXCEPT !.Reason = PFExtend(@, e.o - e.crl)])
    IN AfterLine(skipLine(b, i0))

RECURSIVE VerLoop(_, _, _)
VerLoop(b, l, majorV) ==
    IF l >= BLen(b) THEN [k |-> "end", l |-> l]
    ELSE LET Byte(c) ==
                IF c = "." THEN
                    IF PFEmpty(majorV) THEN
                        IF l + 1 >= BLen(b) THEN [k |-> "more", l |-> l]
                        ELSE VerLoop(b, l + 1, PFExtend(majorV, l))
                    ELSE [k |-> "bad", l |-> l]
                ELSE IF c = " " THEN [k |-> "brk", l |-> l]
                ELSE IF IsDigit(c) THEN VerLoop(b, l + 1, majorV)
                ELSE [k |-> "bad", l |-> l]
         IN Byte(At(b, l))

FLStatus(b, i) == (Ord(At(b, i)) - 48) * 100 + (Ord(At(b, i + 1)) - 48) * 10 + (Ord(At(b, i + 2)) - 48)

FLRplState(b, i0, pl) ==
    LET Status(l, i, pl1) ==
            IF l + 1 >= BLen(b) THEN FLRet(i0, ErrHdrMoreBytes, pl1)
            ELSE IF i + 3 >= BLen(b) THEN FLRet(i, ErrPanic, pl1)
            ELSE IF At(b, i + 3) # " "
                     \/ ~(IsDigit(At(b, i)) /\ IsDigit(At(b, i + 1)) /\ IsDigit(At(b, i + 2)))
                 THEN FLRet(i, ErrHdrBadChar, pl1)
            ELSE FLRplReasonState(b, i + 4,
                     [pl1 EXCEPT !.StatusCode = PFSet(i, i + 3),
                                 !.Status = FLStatus(b, i),
                                 !.Reason = PFSet(i + 4, i + 4),
                                 !.state = flRplReason])
        AfterVersion(v) ==
            IF v.k = "more" THEN FLRet(i0, ErrHdrMoreBytes, pl)
            ELSE IF v.k = "bad" THEN FLRet(v.l, ErrHdrBadChar, pl)
            ELSE Status(v.l, v.l + 1,
                        [pl EXCEPT !.Version = PFSet(i0, v.l), !.state = flRplStatus])
        From(l0) == AfterVersion(VerLoop(b, l0, PFSet(l0, l0)))
    IN From(i0 + Len(httpVerPref))

FLInitState(b, i, pl) ==
    IF BLen(b) - i < Len(httpVerSP) + 3 + 3 THEN FLRet(i, ErrHdrMoreBytes, pl)
    ELSE IF BytesPrefix(httpVerPref, b, i) THEN FLRplState(b, i, pl)
    ELSE FLReqMethodState(b, i, [pl EXCEPT !.state = flReqMethod, !.Method = PFSet(i, i)])

ParseFLine(b, o, pl) ==
    CASE pl.state = flInit -> FLInitState(b, o, pl)
      [] pl.state = flReqMethod -> FLReqMethodState(b, o, pl)
      [] pl.state = flReqURI -> FLReqURIState(b, o, pl)
      [] pl.state = flReqVer -> FLReqVerState(b, o, pl)
      [] pl.state = flCRLF -> FLCRLFState(b, o, pl)
      [] pl.state = flRplReason -> FLRplReasonState(b, o, pl)
      [] OTHER -> FLEndOk(o, pl)

----------------------------------------------------------------------------
(* Tokens and token parameters *)

PTokNoneF == 0
PTokCommaSepF == 2
PTokSpSepF == 4
PTokAllowSlashF == 8
PTokAllowParamsF == 16
PTokInputEndF == 32

(* flags & f != 0, for a one-bit f *)
HasF(flags, f) == (flags \div f) % 2 = 1

tokAllowedChar(c) == Ord(c) > 32 /\ Ord(c) < 127

Specials == {"(", ")", "<", ">", "@", ":", "\\", "\"", "[", "]", "?", "=", "{", "}"}

IsLWSChar(c) == c \in {" ", "\t", "\n", "\r"}

SkipQuotedMoreBytes(i) == [o |-> i, err |-> ErrHdrMoreBytes]

RECURSIVE SkipQuoted(_, _)
SkipQuoted(b, i) ==
    IF i >= BLen(b) THEN SkipQuotedMoreBytes(i)
    ELSE LET Byte(c) ==
                IF c = "\"" THEN [o |-> i + 1, err |-> ErrHdrOk]
                ELSE IF c = "\\" THEN
                    IF i + 1 < BLen(b) THEN
                        IF IsEOL(At(b, i + 1)) THEN [o |-> i + 1, err |-> ErrHdrBadChar]
                        ELSE SkipQuoted(b, i + 2)
                    ELSE SkipQuotedMoreBytes(i)
                ELSE IF IsEOL(c) THEN [o |-> i, err |-> ErrHdrBadChar]
                ELSE IF Ord(c) < 33 /\ c # " " /\ c # "\t" THEN [o |-> i, err |-> ErrHdrBadChar]
                ELSE SkipQuoted(b, i + 1)
         IN Byte(At(b, i))

paramInit == 0
paramName == 1
paramFEq == 2
paramFVal == 3
paramVal == 4
paramFSemi == 5
paramFNxt == 6
paramInitNxtVal == 7
paramQuotedVal == 8
paramERR == 9
paramFIN == 10

PTokParamZero == [All |-> PFZero, Name |-> PFZero, Val |-> PFZero, state |-> paramInit]

PRet(o, e, pm) == [o |-> o, err |-> e, pm |-> pm]

PErr(i, pm) == PRet(i, ErrHdrBadChar, [pm EXCEPT !.state = paramERR])

PEndOfHdr(n, pm) ==
    IF pm.state \in {paramInit, paramInitNxtVal} THEN PRet(n, ErrHdrEOH, pm)
    ELSE IF pm.state \in {paramFNxt, paramName, paramFEq, paramFVal, paramVal, paramFSemi}
        THEN PRet(n, ErrHdrEOH, [pm EXCEPT !.state = paramFIN])
    ELSE PRet(n, ErrHdrBug, [pm EXCEPT !.state = paramERR])

PMoreBytes(b, i, pm, flags) ==
    IF HasF(flags, PTokInputEndF) THEN
        IF pm.state \in {paramInit, paramInitNxtVal, paramFNxt, paramFSemi, paramFVal, paramFEq}
            THEN PEndOfHdr(BLen(b), pm)
        ELSE IF pm.state = paramName
            THEN PEndOfHdr(BLen(b), [pm EXCEPT !.Name = PFExtend(@, i), !.All = PFExtend(@, i)])
        ELSE IF pm.state = paramVal
            THEN PEndOfHdr(BLen(b), [pm EXCEPT !.Val = PFExtend(@, i), !.All = PFExtend(@, i)])
        ELSE IF pm.state = paramQuotedVal THEN PRet(i, ErrHdrMoreBytes, pm)
        ELSE PRet(i, ErrHdrBug, pm)
    ELSE PRet(i, ErrHdrMoreBytes, pm)

PMoreValues(i, pm) ==
    IF pm.state = paramFNxt THEN PRet(i, ErrHdrMoreValues, [pm EXCEPT !.state = paramInitNxtVal])
    ELSE PRet(i, ErrHdrBug, [pm EXCEPT !.state = paramERR])

(* PNewTok that returns the offset of the new token *)
PNewTokAtToken(offs0, i, pm, flags) ==
    IF HasF(flags, PTokSpSepF) THEN PRet(i, ErrHdrOk, [pm EXCEPT !.state = paramFIN])
    ELSE PErr(i, pm)

(* a new token found where a separator was expected (paramFEq, paramFSemi) *)
PNewTok(offs0, i, pm, flags) ==
    IF HasF(flags, PTokSpSepF) THEN
        PRet(IF i >= offs0 + 1 THEN i - 1 ELSE i, ErrHdrOk, [pm EXCEPT !.state = paramFIN])
    ELSE PErr(i, pm)

PComma(i, pm, pmOk, flags) ==
    IF HasF(flags, PTokCommaSepF) THEN PRet(i, ErrHdrOk, [pmOk EXCEPT !.state = paramFIN])
    ELSE PErr(i, pm)

RECURSIVE PLoop(_, _, _, _, _)
(* white space in front of position i: pm is the parameter before the    *)
(* state change of the case, pmAfter after it                            *)
PWS(b, offs0, i, pm, pmAfter, flags) ==
    LET AfterLWS(l) ==
            IF l.err = ErrHdrMoreBytes THEN PMoreBytes(b, i, pm, flags)
            ELSE IF l.err = ErrHdrOk THEN PLoop(b, offs0, l.n, pmAfter, flags)
            ELSE IF l.err = ErrHdrEOH THEN PEndOfHdr(l.n + l.crl, pmAfter)
            ELSE PRet(l.n, l.err, pmAfter)
    IN AfterLWS(skipLWS(b, i, flags))

PLoop(b, offs0, i, pm, flags) ==
    IF i >= BLen(b) THEN PMoreBytes(b, i, pm, flags)
    ELSE LET c == At(b, i)
             st == pm.state
             nameEnd == [pm EXCEPT !.Name = PFExtend(@, i), !.All = PFExtend(@, i)]
             valEnd == [pm EXCEPT !.Val = PFExtend(@, i), !.All = PFExtend(@, i)]
    IN CASE st \in {paramInit, paramInitNxtVal, paramFNxt} ->
            IF IsLWSChar(c) THEN PWS(b, offs0, i, pm, pm, flags)
            ELSE IF c = ";" THEN PLoop(b, offs0, i + 1, pm, flags)
            ELSE IF c \in Specials \cup {"/", ","} \/ ~tokAllowedChar(c) THEN PErr(i, pm)
            ELSE IF st = paramFNxt THEN PMoreValues(i, pm)
            ELSE PLoop(b, offs0, i + 1,
                    [pm EXCEPT !.state = paramName, !.Name = PFSet(i, i), !.All = PFSet(i, i)], flags)
        [] st = paramName ->
            IF IsLWSChar(c) THEN PWS(b, offs0, i, pm, [nameEnd EXCEPT !.state = paramFEq], flags)
            ELSE IF c = ";" THEN PLoop(b, offs0, i + 1, [nameEnd EXCEPT !.state = paramFNxt], flags)
            ELSE IF c = "=" THEN
                PLoop(b, offs0, i + 1,
                    [pm EXCEPT !.Name = PFExtend(@, i), !.All = PFExtend(@, i + 1),
                               !.state = paramFVal], flags)
            ELSE IF c = "," THEN PComma(i, pm, nameEnd, flags)
            ELSE IF c \in (Specials \ {"="}) \cup {"/"} \/ ~tokAllowedChar(c) THEN PErr(i, pm)
            ELSE PLoop(b, offs0, i + 1, pm, flags)
        [] st = paramFEq ->
            IF IsLWSChar(c) THEN PWS(b, offs0, i, pm, pm, flags)
            ELSE IF c = ";" THEN PLoop(b, offs0, i + 1, [pm EXCEPT !.state = paramFNxt], flags)
            ELSE IF c = "=" THEN PLoop(b, offs0, i + 1, [pm EXCEPT !.state = paramFVal], flags)
            ELSE IF c = "," THEN PComma(i, pm, pm, flags)
            ELSE IF c \in (Specials \ {"="}) \cup {"/"} \/ ~tokAllowedChar(c) THEN PErr(i, pm)
            ELSE PNewTok(offs0, i, pm, flags)
        [] st = paramFVal ->
            IF IsLWSChar(c) THEN PWS(b, offs0, i, pm, pm, flags)
            ELSE IF c = ";" THEN
                PLoop(b, offs0, i + 1,
                    [pm EXCEPT !.Val = PFSet(i, i), !.All = PFExtend(@, i), !.state = paramFNxt], flags)
            ELSE IF c = "," THEN PComma(i, pm, [pm EXCEPT !.Val = PFSet(i, i)], flags)
            ELSE IF c = "\"" THEN
                PLoop(b, offs0, i + 1,
                    [pm EXCEPT !.Val = PFSet(i, i), !.All = PFExtend(@, i),
                               !.state = paramQuotedVal], flags)
            ELSE IF c \in (Specials \ {"\""}) \cup {"/"} \/ ~tokAllowedChar(c) THEN PErr(i, pm)
            ELSE PLoop(b, offs0, i + 1,
                    [pm EXCEPT !.state = paramVal, !.Val = PFSet(i, i), !.All = PFExtend(@, i)], flags)
        [] st = paramVal ->
            IF IsLWSChar(c) THEN PWS(b, offs0, i, pm, [valEnd EXCEPT !.state = paramFSemi], flags)
            ELSE IF c = ";" THEN PLoop(b, offs0, i + 1, [valEnd EXCEPT !.state = paramFNxt], flags)
            ELSE IF c = "," THEN PComma(i, pm, valEnd, flags)
            ELSE IF c \in Specials \cup {"/"} \/ ~tokAllowedChar(c) THEN PErr(i, pm)
            ELSE PLoop(b, offs0, i + 1, pm, flags)
        [] st = paramQuotedVal ->
            LET AfterQuoted(q) ==
                    IF q.err = ErrHdrMoreBytes THEN PMoreBytes(b, q.o, pm, flags)
                    ELSE IF q.err = ErrHdrOk THEN
                        PLoop(b, offs0, q.o,
                            [pm EXCEPT !.Val = PFExtend(@, q.o), !.All = PFExtend(@, q.o),
                                       !.state = paramFSemi], flags)
                    ELSE PRet(q.o, q.err, pm)
            IN AfterQuoted(SkipQuoted(b, i))
        [] st = paramFSemi ->
            IF IsLWSChar(c) THEN PWS(b, offs0, i, pm, pm, flags)
            ELSE IF c = ";" THEN PLoop(b, offs0, i + 1, [pm EXCEPT !.state = paramFNxt], flags)
            ELSE IF c = "," THEN PComma(i, pm, pm, flags)
            ELSE IF c \in Specials \cup {"/"} \/ ~tokAllowedChar(c) THEN PErr(i, pm)
            ELSE PNewTok(offs0, i, pm, flags)
        [] OTHER -> PLoop(b, offs0, i + 1, pm, flags)

ParseTokenParam(b, offs0, pm, flags) ==
    IF pm.state = paramFIN THEN PRet(offs0, ErrHdrOk, pm)
    ELSE PLoop(b, offs0, offs0, pm, flags)

tokInit == 0
tokName == 1
tokWS == 2
tokFNxt == 3
tokFParam == 4
tokPName == 5
tokPVal == 6
tokPVQuoted == 7
tokFIN == 8
tokERR == 9

(* a PToken whose ParamLst has room for cap parameters *)
PTokenNew(cap) ==
    [V |-> PFZero, SepOffs |-> 0, Params |-> PFZero, ParamsNo |-> 0,
     LastParam |-> PTokParamZero, ParamLst |-> [k \in 1..cap |-> PTokParamZero],
     state |-> tokInit, soffs |-> 0]

PTokenZero == PTokenNew(0)

PTokenReset(pt) == [PTokenZero EXCEPT !.ParamLst = pt.ParamLst]

(* PToken.Name and PToken.Suffix *)
PTokenName(pt) == IF pt.SepOffs # 0 THEN PFSet(pt.V.Offs, pt.SepOffs) ELSE pt.V

PTokenSuffix(pt) ==
    IF pt.SepOffs # 0 THEN [pt.V EXCEPT !.Offs = (pt.SepOffs + 1) % OffsTMod] ELSE PFZero

PTokenParsed(pt) == pt.state \in {tokFIN, tokWS, tokFNxt}

TRet(o, e, pt) == [o |-> o, err |-> e, pt |-> pt]

(* BadChar reported one byte after the offending one *)
TErrNextByte(i, pt) == TRet(i + 1, ErrHdrBadChar, [pt EXCEPT !.state = tokERR])

TErr(i, pt) == TRet(i, ErrHdrBadChar, [pt EXCEPT !.state = tokERR])

TEndOfHdr(n, pt) ==
    IF pt.state = tokInit THEN TRet(n, ErrHdrEmpty, pt)
    ELSE IF pt.state \in {tokName, tokWS, tokFNxt, tokFParam}
        THEN TRet(n, ErrHdrOk, [pt EXCEPT !.state = tokFIN, !.soffs = 0])
    ELSE TRet(n, ErrHdrBug, [pt EXCEPT !.state = tokERR])

(* TMoreBytes that does not close the token at the end of the input *)
TMoreBytesOpenToken(b, i, pt, flags, s) ==
    IF HasF(flags, PTokInputEndF) THEN
        IF pt.state \in {tokInit, tokName, tokWS, tokFNxt, tokFParam}
            THEN TEndOfHdr(BLen(b), [pt EXCEPT !.soffs = s])
        ELSE TRet(i, ErrHdrBug, [pt EXCEPT !.state = tokERR])
    ELSE TRet(i, ErrHdrMoreBytes, [pt EXCEPT !.soffs = s])

TMoreBytes(b, i, pt, flags, s) ==
    IF HasF(flags, PTokInputEndF) THEN
        IF pt.state \in {tokInit, tokWS, tokFNxt, tokFParam}
            THEN TEndOfHdr(BLen(b), [pt EXCEPT !.soffs = s])
        ELSE IF pt.state = tokName
            THEN TEndOfHdr(BLen(b), [pt EXCEPT !.V = PFExtend(@, i), !.soffs = s])
        ELSE TRet(i, ErrHdrBug, [pt EXCEPT !.state = tokERR])
    ELSE TRet(i, ErrHdrMoreBytes, [pt EXCEPT !.soffs = s])

(* MoreValues reported after the first byte of the next token *)
TMoreValuesPastFirst(i, pt) ==
    IF pt.state \in {tokWS, tokFNxt} THEN TRet(i + 1, ErrHdrMoreValues, [pt EXCEPT !.soffs = 0])
    ELSE TRet(i, ErrHdrBug, [pt EXCEPT !.state = tokERR])

TMoreValues(i, pt) ==
    IF pt.state \in {tokWS, tokFNxt} THEN TRet(i, ErrHdrMoreValues, [pt EXCEPT !.soffs = 0])
    ELSE TRet(i, ErrHdrBug, [pt EXCEPT !.state = tokERR])

(* the bookkeeping of ParseTokenLst after a parameter was parsed *)
TAddParam(pt, pm) ==
    LET pt1 == [pt EXCEPT !.LastParam = pm] IN
    IF PFEmpty(pm.All) THEN pt1
    ELSE [pt1 EXCEPT
            !.ParamLst = IF Len(pt.ParamLst) > pt.ParamsNo
                         THEN [@ EXCEPT ![pt.ParamsNo + 1] = pm] ELSE @,
            !.ParamsNo = @ + 1,
            !.Params = IF PFEmpty(@) THEN pm.All ELSE PFExtend(@, pm.All.Offs + pm.All.Len)]

RECURSIVE TLoop(_, _, _, _, _)
(* white space at position i; on more bytes the offset returned is the   *)
(* one given as iMore                                                    *)
TWS(b, i, iMoreAtN, pt, ptAfter, flags, s) ==
    LET AfterLWS(l) ==
            IF l.err = ErrHdrMoreBytes
                THEN TMoreBytes(b, IF iMoreAtN THEN l.n ELSE i, pt, flags, s)
            ELSE IF l.err = ErrHdrOk THEN TLoop(b, l.n, ptAfter, flags, s)
            ELSE IF l.err = ErrHdrEOH THEN TEndOfHdr(l.n + l.crl, ptAfter)
            ELSE TRet(l.n, l.err, [ptAfter EXCEPT !.state = tokERR])
    IN AfterLWS(skipLWS(b, i, flags))

TLoop(b, i, pt, flags, s) ==
    IF i >= BLen(b) THEN TMoreBytes(b, i, pt, flags, s)
    ELSE LET c == At(b, i)
             st == pt.state
    IN CASE st = tokInit ->
            IF IsLWSChar(c) THEN TWS(b, i, TRUE, pt, pt, flags, s)
            ELSE IF c = "," THEN
                IF HasF(flags, PTokCommaSepF) THEN TLoop(b, i + 1, pt, flags, s)
                ELSE TErr(i, pt)
            ELSE IF c \in Specials \cup {";", "/"} \/ ~tokAllowedChar(c) THEN TErr(i, pt)
            ELSE TLoop(b, i + 1, [pt EXCEPT !.V = PFSet(i, i), !.state = tokName], flags, i)
        [] st = tokName ->
            IF IsLWSChar(c) THEN
                TWS(b, i, FALSE, pt, [pt EXCEPT !.state = tokWS, !.V = PFExtend(@, i)], flags, s)
            ELSE IF c = "," THEN
                IF HasF(flags, PTokCommaSepF)
                    THEN TLoop(b, i + 1, [pt EXCEPT !.V = PFExtend(@, i), !.state = tokFNxt], flags, s)
                ELSE TErr(i, pt)
            ELSE IF c \in Specials THEN TErr(i, pt)
            ELSE IF c = "/" THEN
                IF ~HasF(flags, PTokAllowSlashF) THEN TRet(i, ErrHdrBadChar, pt)
                ELSE TLoop(b, i + 1, [pt EXCEPT !.SepOffs = i % OffsTMod], flags, s)
            ELSE IF c = ";" THEN
                IF ~HasF(flags, PTokAllowParamsF) THEN TRet(i, ErrHdrBadChar, pt)
                ELSE TLoop(b, i + 1, [pt EXCEPT !.V = PFExtend(@, i), !.state = tokFParam], flags, s)
            ELSE IF ~tokAllowedChar(c) THEN TErr(i, pt)
            ELSE TLoop(b, i + 1, pt, flags, s)
        [] st = tokWS ->
            IF IsLWSChar(c) THEN TWS(b, i, FALSE, pt, pt, flags, s)
            ELSE IF c = "," THEN
                IF HasF(flags, PTokCommaSepF)
                    THEN TLoop(b, i + 1, [pt EXCEPT !.state = tokFNxt], flags, s)
                ELSE TErr(i, pt)
            ELSE IF c = ";" THEN
                IF ~HasF(flags, PTokAllowParamsF) THEN TRet(i, ErrHdrBadChar, pt)
                ELSE TLoop(b, i + 1, [pt EXCEPT !.state = tokFParam], flags, s)
            ELSE IF HasF(flags, PTokSpSepF) THEN TMoreValues(i, pt)
            ELSE TErr(i, pt)
        [] st = tokFNxt ->
            IF IsLWSChar(c) THEN TWS(b, i, FALSE, pt, pt, flags, s)
            ELSE IF c = "," THEN
                IF ~HasF(flags, PTokCommaSepF) THEN TErr(i, pt)
                ELSE TLoop(b, i + 1, pt, flags, s)
            ELSE IF c \in Specials \cup {";", "/"} THEN TErr(i, pt)
            ELSE TMoreValues(i, pt)
        [] st = tokFParam ->
            LET Added(r, pt1) ==
                    IF r.err = ErrHdrMoreBytes
                        THEN TMoreBytes(b, r.o, [pt EXCEPT !.LastParam = r.pm], flags, s)
                    ELSE IF r.err = ErrHdrMoreValues THEN TLoop(b, r.o, pt1, flags, s)
                    ELSE IF r.err = ErrHdrOk THEN
                        IF r.o >= BLen(b)
                            THEN TMoreBytes(b, r.o + 1, [pt1 EXCEPT !.state = tokFNxt], flags, s)
                        ELSE TLoop(b, r.o + 1, [pt1 EXCEPT !.state = tokFNxt], flags, s)
                    ELSE IF r.err = ErrHdrEOH THEN TEndOfHdr(r.o, pt1)
                    ELSE TRet(r.o, r.err, [pt1 EXCEPT !.state = tokERR])
                AfterParam(r) == Added(r, TAddParam(pt, r.pm))
            IN AfterParam(ParseTokenParam(b, i, pt.LastParam, flags))
        [] OTHER -> TRet(i, ErrHdrBug, pt)

ParseTokenLst(b, offs0, pt, flags) ==
    IF pt.state = tokFIN THEN TRet(offs0, ErrHdrOk, pt)
    ELSE TLoop(b, offs0, pt, flags, pt.soffs)

----------------------------------------------------------------------------
(* Content-Length value: a decimal unsigned 32-bit integer between LWS.   *)
(* Values of more than 8 significant digits that fit 32 bits are all      *)
(* represented by HugeSize.                                               *)

uiInit == 0
uiFound == 1
uiEnd == 2
uiFIN == 3

UIntMaxStr == "4294967295"

PUIntBodyZero == [UIVal |-> 0, SVal |-> PFZero, state |-> uiInit, sig |-> 0]

PUIntParsed(v) == v.state = uiFIN

URet(o, e, v) == [o |-> o, err |-> e, v |-> v]

RECURSIVE StrLess(_, _, _)
(* a < b for two digit strings of the same length, from index k *)
StrLess(a, b, k) ==
    IF k > Len(a) THEN FALSE
    ELSE IF Ord(SubSeq(a, k, k)) # Ord(SubSeq(b, k, k))
        THEN Ord(SubSeq(a, k, k)) < Ord(SubSeq(b, k, k))
    ELSE StrLess(a, b, k + 1)

(* the value after one more digit at position i, or overflow *)
UIntAddDigit(b, i, v) ==
    LET Sig(d, nsig) ==
            IF nsig > 10 \/ (nsig = 10 /\ StrLess(UIntMaxStr, Slice(b, i + 1 - nsig, i + 1), 1))
                THEN [ok |-> FALSE, v |-> v]
            ELSE [ok |-> TRUE,
                  v |-> [v EXCEPT !.sig = nsig,
                                  !.UIVal = IF nsig > 8 THEN HugeSize ELSE @ * 10 + d]]
        Digit(d) == Sig(d, IF v.sig = 0 /\ d = 0 THEN 0 ELSE v.sig + 1)
    IN Digit(Ord(At(b, i)) - 48)

UEndOfHdr(n, v) ==
    IF v.state = uiInit THEN URet(n, ErrHdrEmpty, v)
    ELSE URet(n, ErrHdrOk, [v EXCEPT !.state = uiFIN])

RECURSIVE ULoop(_, _, _)
ULoop(b, i, v) ==
    IF i >= BLen(b) THEN URet(i, ErrHdrMoreBytes, v)
    ELSE LET c == At(b, i) IN
        IF IsLWSChar(c) THEN
            LET AfterLWS(l, v1) ==
                    IF l.err = ErrHdrMoreBytes
                        THEN URet(IF v.state = uiInit THEN l.n ELSE i, ErrHdrMoreBytes, v)
                    ELSE IF l.err = ErrHdrOk THEN ULoop(b, l.n, v1)
                    ELSE IF l.err = ErrHdrEOH THEN UEndOfHdr(l.n + l.crl, v1)
                    ELSE URet(l.n, l.err, v1)
            IN AfterLWS(skipLWS(b, i, 0),
                        IF v.state = uiFound
                        THEN [v EXCEPT !.SVal = PFExtend(@, i), !.state = uiEnd] ELSE v)
        ELSE IF IsDigit(c) THEN
            IF v.state = uiEnd THEN URet(i, ErrHdrValNotNumber, v)
            ELSE LET Added(a) ==
                         IF a.ok THEN ULoop(b, i + 1, a.v)
                         ELSE URet(i, ErrHdrNumTooBig, v)
                 IN Added(UIntAddDigit(b, i,
                            IF v.state = uiInit
                            THEN [v EXCEPT !.state = uiFound, !.SVal = PFSet(i, i)] ELSE v))
        ELSE URet(i, ErrHdrValNotNumber, v)

ParseCLenVal(b, offs0, v) ==
    IF v.state = uiFIN THEN URet(offs0, ErrHdrOk, v)
    ELSE ULoop(b, offs0, v)

----------------------------------------------------------------------------
(* Multi-valued header aggregates: Transfer-Encoding, Upgrade,            *)
(* Sec-WebSocket-Protocol, Sec-WebSocket-Extensions.  The four Go types   *)
(* have the same shape; the model uses the field names of PTrEnc for all  *)
(* (Encodings for Protos/Extensions, First for first); Last is kept by    *)
(* PTrEnc only.                                                           *)

TrEncNone == 0
TrEncChunkedF == 2
TrEncCompressF == 4
TrEncDeflateF == 8
TrEncGzipF == 16
TrEncIdentityF == 32
TrEncTrailersF == 64
TrEncXCompressF == 128
TrEncXGzipF == 256
TrEncOtherF == 512

TrEncResolve(n) ==
    CASE Len(n) = 7 /\ CmpEq(n, "chunked") -> TrEncChunkedF
      [] Len(n) = 7 /\ CmpEq(n, "deflate") -> TrEncDeflateF
      [] Len(n) = 8 /\ CmpEq(n, "compress") -> TrEncCompressF
      [] Len(n) = 8 /\ CmpEq(n, "identity") -> TrEncIdentityF
      [] Len(n) = 8 /\ CmpEq(n, "trailers") -> TrEncTrailersF
      [] Len(n) = 4 /\ CmpEq(n, "gzip") -> TrEncGzipF
      [] Len(n) = 10 /\ CmpEq(n, "x-compress") -> TrEncXCompressF
      [] Len(n) = 6 /\ CmpEq(n, "x-gzip") -> TrEncXGzipF
      [] OTHER -> TrEncOtherF

UProtoNone == 0
UProtoWSockF == 2
UProtoHTTP2F == 4
UProtoOtherF == 8

UpgProtoResolve(n) ==
    IF Len(n) = 9 /\ CmpEq(n, "websocket") THEN UProtoWSockF
    ELSE IF Len(n) = 3 /\ CmpEq(n, "h2c") THEN UProtoHTTP2F
    ELSE IF Len(n) = 8 /\ CmpEq(n, "http/2.0") THEN UProtoHTTP2F
    ELSE UProtoOtherF

WSProtoNone == 0
WSProtoSIPF == 2
WSProtoXMPPF == 4
WSProtoMSRPF == 8
WSProtoOtherF == 16

WSProtoResolve(n) ==
    IF Len(n) = 3 /\ CmpEq(n, "sip") THEN WSProtoSIPF
    ELSE IF Len(n) = 4 /\ CmpEq(n, "xmpp") THEN WSProtoXMPPF
    ELSE IF Len(n) = 4 /\ CmpEq(n, "msrp") THEN WSProtoMSRPF
    ELSE WSProtoOtherF

WSExtNone == 0
WSExtPMsgDeflateF == 2
WSExtOtherF == 4

WSExtResolve(n) ==
    IF Len(n) = 18 /\ CmpEq(n, "permessage-deflate") THEN WSExtPMsgDeflateF
    ELSE WSExtOtherF

(* e | f for a one-bit (or zero) f *)
(* u.Encodings = pv.Enc *)
OrFAssign(e, f) == f

OrF(e, f) == IF f = 0 \/ HasF(e, f) THEN e ELSE e + f

HdrNone == 0
HdrCLen == 1
HdrTrEncoding == 2
HdrUpgrade == 3
HdrCEncoding == 4
HdrHost == 5
HdrServer == 6
HdrOrigin == 7
HdrConnection == 8
HdrWSockKey == 9
HdrWSockProto == 10
HdrWSockAccept == 11
HdrWSockVer == 12
HdrWSockExt == 13
HdrOther == 14

(* a value of an aggregate: TrEncVal, UpgProtoVal, WSProtoVal, WSExtVal *)
TrEncValZero == [Val |-> PTokenZero, Enc |-> 0]

TrEncValReset(v) == [Val |-> PTokenReset(v.Val), Enc |-> 0]

(* an aggregate whose caller array Vals has room for cap values *)
PTrEncNew(cap) ==
    [Vals |-> [k \in 1..cap |-> TrEncValZero], N |-> 0, HNo |-> 0, Encodings |-> 0,
     LastParsed |-> PFZero, First |-> TrEncValZero, Last |-> TrEncValZero,
     tmp |-> TrEncValZero]

VNo(u) == IF u.N > Len(u.Vals) THEN Len(u.Vals) ELSE u.N

RECURSIVE ResetVals(_, _)
ResetVals(vals, n) ==
    IF n = 0 THEN vals ELSE ResetVals([vals EXCEPT ![n] = TrEncValReset(@)], n - 1)

PTrEncReset(u) == [PTrEncNew(0) EXCEPT !.Vals = ResetVals(u.Vals, VNo(u))]

AggFlags(kind) ==
    CASE kind = HdrTrEncoding -> PTokCommaSepF + PTokAllowParamsF
      [] kind = HdrUpgrade -> PTokCommaSepF + PTokAllowSlashF
      [] kind = HdrWSockProto -> PTokCommaSepF
      [] kind = HdrWSockExt -> PTokCommaSepF + PTokAllowParamsF

AggResolve(kind, n) ==
    CASE kind = HdrTrEncoding -> TrEncResolve(n)
      [] kind = HdrUpgrade -> UpgProtoResolve(n)
      [] kind = HdrWSockProto -> WSProtoResolve(n)
      [] kind = HdrWSockExt -> WSExtResolve(n)

ARet(o, n, e, u) == [o |-> o, vNo |-> n, err |-> e, u |-> u]

(* *pv = v, where pv points into u.Vals or to u.tmp *)
AggPut(u, v) ==
    IF u.N < Len(u.Vals) THEN [u EXCEPT !.Vals[u.N + 1] = v] ELSE [u EXCEPT !.tmp = v]

RECURSIVE AggLoop(_, _, _, _, _)
AggLoop(kind, b, offs0, u, vNo) ==
    LET inVals == u.N < Len(u.Vals)
        pv == IF inVals THEN u.Vals[u.N + 1] ELSE u.tmp
        Stored(r, u1) ==
            IF r.err = ErrHdrMoreValues THEN AggLoop(kind, b, r.o, u1, vNo + 1)
            ELSE ARet(r.o, vNo + 1, r.err, u1)
        Value(r, v) ==
            Stored(r, [Vals |-> IF inVals THEN [u.Vals EXCEPT ![u.N + 1] = v] ELSE u.Vals,
                      N |-> u.N + 1,
                      HNo |-> u.HNo,
                      Encodings |-> OrF(u.Encodings, v.Enc),
                      LastParsed |-> IF vNo = 0 THEN r.pt.V
                                     ELSE PFExtend(u.LastParsed,
                                               (r.pt.V.Offs + r.pt.V.Len) % OffsTMod),
                      First |-> IF u.N + 1 = 1 /\ Len(u.Vals) = 0 THEN v ELSE u.First,
                      Last |-> IF kind = HdrTrEncoding THEN v ELSE u.Last,
                      tmp |-> IF inVals THEN u.tmp ELSE TrEncValReset(v)])
        AfterToken(r) ==
            IF r.err \in {ErrHdrOk, ErrHdrMoreValues}
                THEN Value(r, [Val |-> r.pt, Enc |-> AggResolve(kind, GetPField(b, r.pt.V))])
            ELSE IF r.err = ErrHdrMoreBytes
                THEN ARet(r.o, vNo, r.err, AggPut(u, [pv EXCEPT !.Val = r.pt]))
            ELSE ARet(r.o, vNo, r.err, AggPut(u, TrEncValReset([pv EXCEPT !.Val = r.pt])))
    IN AfterToken(ParseTokenLst(b, offs0, pv.Val, AggFlags(kind)))

ParseAllValues(kind, b, offs0, u) == AggLoop(kind, b, offs0, [u EXCEPT !.LastParsed = PFZero], 0)

ParseAllTrEncValues(b, offs0, u) == ParseAllValues(HdrTrEncoding, b, offs0, u)

ParseAllUpgradeValues(b, offs0, u) == ParseAllValues(HdrUpgrade, b, offs0, u)

ParseAllWSProtoValues(b, offs0, u) == ParseAllValues(HdrWSockProto, b, offs0, u)

ParseAllWSExtValues(b, offs0, u) == ParseAllValues(HdrWSockExt, b, offs0, u)

----------------------------------------------------------------------------
(* Headers *)

hdrName2Type ==
    << [n |-> "content-length", t |-> HdrCLen],
       [n |-> "transfer-encoding", t |-> HdrTrEncoding],
       [n |-> "upgrade", t |-> HdrUpgrade],
       [n |-> "content-encoding", t |-> HdrCEncoding],
       [n |-> "host", t |-> HdrHost],
       [n |-> "server", t |-> HdrServer],
       [n |-> "connection", t |-> HdrConnection],
       [n |-> "sec-websocket-key", t |-> HdrWSockKey],
       [n |-> "sec-websocket-protocol", t |-> HdrWSockProto],
       [n |-> "sec-websocket-accept", t |-> HdrWSockAccept],
       [n |-> "sec-websocket-version", t |-> HdrWSockVer],
       [n |-> "sec-websocket-extensions", t |-> HdrWSockExt],
       [n |-> "origin", t |-> HdrOrigin] >>

hnBitsLen == 2
hnBitsFChar == 5

hashHdrName(n) ==
    (Ord(ByteToLower(SubSeq(n, 1, 1))) % (2 ^ hnBitsFChar))
        + ((Len(n) % (2 ^ hnBitsLen)) * (2 ^ hnBitsFChar))

GetHdrType(name) ==
    LET Lookup(i) ==
            LET Pick(hit) ==
                    IF hit = {} THEN HdrOther ELSE hdrName2Type[CHOOSE k \in hit : TRUE].t
            IN Pick({k \in 1..Len(hdrName2Type) :
                        hashHdrName(hdrName2Type[k].n) = i /\ CmpEq(name, hdrName2Type[k].n)})
    IN Lookup(hashHdrName(name))

hInit == 0
hName == 1
hNameEnd == 2
hBodyStart == 3
hVal == 4
hValEnd == 5
hCLen == 6
hUpgrade == 7
hTrEncoding == 8
hWSockProto == 9
hWSockExt == 10
hFIN == 11

HdrZero == [Type |-> HdrNone, Name |-> PFZero, Val |-> PFZero, state |-> hInit]

HdrMissing(h) == h.Type = HdrNone

HdrFlagsSet(f, t) == OrF(f, 2 ^ t)

HdrFlagsTest(f, t) == HasF(f, 2 ^ t)

(* a header list whose caller array Hdrs has room for cap headers *)
HdrLstNew(cap) ==
    [PFlags |-> 0, N |-> 0, Hdrs |-> [k \in 1..cap |-> HdrZero],
     h |-> [k \in 1..(HdrOther - 1) |-> HdrZero], hdr |-> HdrZero]

HdrLstReset(hl) == HdrLstNew(Len(hl.Hdrs))

(* the nil *Hdr *)
HdrNil == [nil |-> TRUE]

GetHdr(hl, t) == IF t > HdrNone /\ t < HdrOther THEN hl.h[t] ELSE HdrNil

SetHdr(hl, newhdr) ==
    LET i == newhdr.Type - 1 IN
    IF i >= 0 /\ i < Len(hl.h) /\ HdrMissing(hl.h[i + 1])
        THEN [hl EXCEPT !.h[i + 1] = newhdr]
    ELSE hl

(* the header values of a message; PHBNil stands for a nil PHBodies *)
PHdrValsNew(cap) ==
    [CLen |-> PUIntBodyZero, Upgrade |-> PTrEncNew(cap), TrEnc |-> PTrEncNew(cap),
     WSProto |-> PTrEncNew(cap), WSExt |-> PTrEncNew(cap)]

PHdrValsReset(hv) ==
    [CLen |-> PUIntBodyZero, Upgrade |-> PTrEncReset(hv.Upgrade), TrEnc |-> PTrEncReset(hv.TrEnc),
     WSProto |-> PTrEncReset(hv.WSProto), WSExt |-> PTrEncReset(hv.WSExt)]

PHBNil == [nil |-> TRUE]

IsNil(hb) == "nil" \in DOMAIN hb

AggKinds == {HdrUpgrade, HdrTrEncoding, HdrWSockProto, HdrWSockExt}

AggField(kind) ==
    CASE kind = HdrUpgrade -> "Upgrade"
      [] kind = HdrTrEncoding -> "TrEnc"
      [] kind = HdrWSockProto -> "WSProto"
      [] kind = HdrWSockExt -> "WSExt"

AggState(kind) ==
    CASE kind = HdrUpgrade -> hUpgrade
      [] kind = HdrTrEncoding -> hTrEncoding
      [] kind = HdrWSockProto -> hWSockProto
      [] kind = HdrWSockExt -> hWSockExt

HRet(o, e, h, hb) == [o |-> o, err |-> e, h |-> h, hb |-> hb]

(* parseBody that parses the value of every Content-Length header *)
parseBodyEveryCLen(b, o, h, hb) ==
    IF IsNil(hb) THEN HRet(o, ErrHdrOk, h, hb)
    ELSE IF h.Type = HdrCLen THEN
        LET AfterCLen(r) ==
                HRet(r.o, r.err,
                     [h EXCEPT !.state = hCLen,
                               !.Val = IF r.err = ErrHdrOk THEN r.v.SVal ELSE @],
                     [hb EXCEPT !.CLen = r.v])
        IN AfterCLen(ULoop(b, o, IF PUIntParsed(hb.CLen) THEN PUIntBodyZero ELSE hb.CLen))
    ELSE IF h.Type \in AggKinds THEN
        LET f == AggField(h.Type)
            AfterValues(r) ==
                HRet(r.o, r.err, [h EXCEPT !.state = AggState(h.Type), !.Val = r.u.LastParsed],
                     [hb EXCEPT ![f] = r.u])
        IN AfterValues(ParseAllValues(h.Type, b, o,
                IF h.state # AggState(h.Type) THEN [hb[f] EXCEPT !.HNo = @ + 1] ELSE hb[f]))
    ELSE HRet(o, ErrHdrOk, h, hb)

parseBody(b, o, h, hb) ==
    IF IsNil(hb) THEN HRet(o, ErrHdrOk, h, hb)
    ELSE IF h.Type = HdrCLen THEN
        IF PUIntParsed(hb.CLen) THEN HRet(o, ErrHdrOk, h, hb)
        ELSE LET AfterCLen(r) ==
                    HRet(r.o, r.err,
                         [h EXCEPT !.state = hCLen,
                                   !.Val = IF r.err = ErrHdrOk THEN r.v.SVal ELSE @],
                         [hb EXCEPT !.CLen = r.v])
             IN AfterCLen(ParseCLenVal(b, o, hb.CLen))
    ELSE IF h.Type \in AggKinds THEN
        LET f == AggField(h.Type)
            AfterValues(r) ==
                HRet(r.o, r.err, [h EXCEPT !.state = AggState(h.Type), !.Val = r.u.LastParsed],
                     [hb EXCEPT ![f] = r.u])
        IN AfterValues(ParseAllValues(h.Type, b, o,
                IF h.state # AggState(h.Type) THEN [hb[f] EXCEPT !.HNo = @ + 1] ELSE hb[f]))
    ELSE HRet(o, ErrHdrOk, h, hb)

RECURSIVE HLoop(_, _, _, _)

(* a resumed parse that takes the span of the last piece for h.Val *)
HFixValLastPiece(val, lastParsed) == lastParsed

(* h.Val after a continued (resumed) parse of an aggregate value *)
HFixVal(val, lastParsed) ==
    IF PFEmpty(val) THEN lastParsed
    ELSE IF ~PFEmpty(lastParsed) THEN PFExtend(val, EndOffs(lastParsed))
    ELSE val

(* ':' found at position i; h.state is hBodyStart *)
HColon(b, i, h, hb) ==
    LET AfterBody(pb) ==
            IF pb.h.state # hBodyStart
                THEN HRet(pb.o, pb.err,
                          IF pb.err = ErrHdrOk THEN [pb.h EXCEPT !.state = hFIN] ELSE pb.h, pb.hb)
            ELSE HLoop(b, i + 1, pb.h, pb.hb)
    IN AfterBody(parseBody(b, i + 1, [h EXCEPT !.Type = GetHdrType(GetPField(b, h.Name))], hb))

HNameState(b, i0, h, hb) ==
    LET NameEnd(i, h1) ==
            IF PFEmpty(h1.Name) THEN HRet(i, ErrHdrBadChar, h1, hb)
            ELSE IF h1.state = hNameEnd THEN HLoop(b, i + 1, h1, hb)
            ELSE HColon(b, i, h1, hb)
        AfterToken(i) ==
            IF i >= BLen(b) THEN HRet(i, ErrHdrMoreBytes, h, hb)
            ELSE IF IsWS(At(b, i)) \/ At(b, i) = ":"
                THEN NameEnd(i, [h EXCEPT !.state = IF IsWS(At(b, i)) THEN hNameEnd
                                                   ELSE hBodyStart,
                                          !.Name = PFExtend(@, i)])
            ELSE HRet(i, ErrHdrBadChar, h, hb)
    IN AfterToken(skipTokenDelim(b, i0, ":"))

HValEndState(b, i, h, hb) ==
    LET AfterLWS(l) ==
            IF l.err = ErrHdrOk THEN HLoop(b, l.n + 1, [h EXCEPT !.state = hVal], hb)
            ELSE IF l.err = ErrHdrEOH
                THEN HRet(l.n + l.crl, ErrHdrOk, [h EXCEPT !.state = hFIN], hb)
            ELSE HRet(l.n, l.err, h, hb)
    IN AfterLWS(skipLWS(b, i, 0))

HLoop(b, i, h, hb) ==
    IF i >= BLen(b) THEN HRet(i, ErrHdrMoreBytes, h, hb)
    ELSE CASE h.state = hInit /\ At(b, i) = "\r" ->
            IF BLen(b) - i < 2 THEN HRet(i, ErrHdrMoreBytes, h, hb)
            ELSE HRet(IF At(b, i + 1) = "\n" THEN i + 2 ELSE i + 1, ErrHdrEmpty,
                      [h EXCEPT !.state = hFIN], hb)
        [] h.state = hInit /\ At(b, i) = "\n" ->
            HRet(i + 1, ErrHdrEmpty, [h EXCEPT !.state = hFIN], hb)
        [] (h.state = hInit /\ ~IsEOL(At(b, i))) \/ h.state = hName ->
            (* hInit falls through to hName *)
            HNameState(b, i,
                IF h.state = hInit THEN [h EXCEPT !.state = hName, !.Name = PFSet(i, i)] ELSE h,
                hb)
        [] h.state = hNameEnd ->
            LET AfterWS(j) ==
                    IF j >= BLen(b) THEN HRet(j, ErrHdrMoreBytes, h, hb)
                    ELSE IF At(b, j) = ":"
                        THEN HColon(b, j, [h EXCEPT !.state = hBodyStart], hb)
                    ELSE HRet(j, ErrHdrBadChar, h, hb)
            IN AfterWS(skipWS(b, i))
        [] h.state = hBodyStart ->
            LET AfterLWS(l) ==
                    IF l.err = ErrHdrOk
                        THEN HLoop(b, l.n + 1,
                                   [h EXCEPT !.state = hVal, !.Val = PFSet(l.n, l.n)], hb)
                    ELSE IF l.err = ErrHdrEOH
                        THEN HRet(l.n + l.crl, ErrHdrOk, [h EXCEPT !.state = hFIN], hb)
                    ELSE HRet(l.n, l.err, h, hb)
            IN AfterLWS(skipLWS(b, i, 0))
        [] h.state \in {hVal, hValEnd} ->
            (* hVal falls through to hValEnd at the end of the token *)
            LET AfterToken(j) ==
                    IF j >= BLen(b) THEN HRet(j, ErrHdrMoreBytes, h, hb)
                    ELSE HValEndState(b, j,
                            IF h.state = hVal
                            THEN [h EXCEPT !.Val = PFExtend(@, j), !.state = hValEnd] ELSE h, hb)
            IN AfterToken(IF h.state = hVal THEN skipToken(b, i) ELSE i)
        [] h.state = hCLen ->
            LET AfterCLen(r) ==
                    HRet(r.o, r.err,
                         IF r.err = ErrHdrOk THEN [h EXCEPT !.Val = r.v.SVal, !.state = hFIN]
                         ELSE h,
                         [hb EXCEPT !.CLen = r.v])
            IN AfterCLen(ParseCLenVal(b, i, hb.CLen))
        [] h.state \in {hUpgrade, hTrEncoding, hWSockProto, hWSockExt} ->
            LET AfterValues(f, r) ==
                    HRet(r.o, r.err,
                         [h EXCEPT !.Val = HFixVal(@, r.u.LastParsed),
                                   !.state = IF r.err = ErrHdrOk THEN hFIN ELSE @],
                         [hb EXCEPT ![f] = r.u])
                Values(kind) ==
                    AfterValues(AggField(kind), ParseAllValues(kind, b, i, hb[AggField(kind)]))
            IN Values(CHOOSE k \in AggKinds : AggState(k) = h.state)
        [] OTHER -> HRet(i, ErrHdrBug, h, hb)

ParseHdrLine(b, offs0, h, hb) == HLoop(b, offs0, h, hb)

HLRet(o, e, hl, hb) == [o |-> o, err |-> e, hl |-> hl, hb |-> hb]

RECURSIVE ParseHeaders(_, _, _, _)
ParseHeaders(b, i, hl, hb) ==
    IF i >= BLen(b) THEN HLRet(i, ErrHdrMoreBytes, hl, hb)
    ELSE LET inHdrs == hl.N < Len(hl.Hdrs)
             Added(r, hl2) ==
                ParseHeaders(b, r.o,
                    [hl2 EXCEPT !.hdr = IF inHdrs THEN @ ELSE HdrZero, !.N = @ + 1], r.hb)
             Stored(r, hl1) ==
                IF r.err = ErrHdrOk
                    THEN Added(r, SetHdr([hl1 EXCEPT !.PFlags = HdrFlagsSet(@, r.h.Type)], r.h))
                ELSE IF r.err = ErrHdrEmpty
                    THEN HLRet(r.o, IF hl.N > 0 THEN ErrHdrOk ELSE ErrHdrEmpty, hl1, r.hb)
                ELSE HLRet(r.o, r.err, hl1, r.hb)
             AfterLine(r) ==
                Stored(r, IF inHdrs THEN [hl EXCEPT !.Hdrs[hl.N + 1] = r.h]
                          ELSE [hl EXCEPT !.hdr = r.h])
         IN AfterLine(ParseHdrLine(b, i, IF inHdrs THEN hl.Hdrs[hl.N + 1] ELSE hl.hdr, hb))

----------------------------------------------------------------------------
(* Chunks *)

sCnkParse == 0
sCnkPTrailer == 1

ChunkValZero == [Val |-> PTokenZero, Size |-> 0, TrailerHdrs |-> HdrLstNew(0), state |-> sCnkParse]

ChunkValReset(v) ==
    [Val |-> PTokenReset(v.Val), Size |-> 0, TrailerHdrs |-> HdrLstReset(v.TrailerHdrs),
     state |-> sCnkParse]

CRet(o, sz, e, chunk) == [o |-> o, size |-> sz, err |-> e, chunk |-> chunk]

(* ParseChunkTrailer that returns the offset after the closing empty line *)
ParseChunkTrailerPastEnd(b, offs0, chunk) ==
    LET Stored(r, c1) ==
            IF r.err = ErrHdrEmpty \/ r.err = ErrHdrOk
                THEN CRet(r.o, chunk.Size, ErrHdrOk, c1)
            ELSE CRet(r.o, chunk.Size, r.err, c1)
        AfterHeaders(r) == Stored(r, [chunk EXCEPT !.TrailerHdrs = r.hl])
    IN AfterHeaders(ParseHeaders(b, offs0, chunk.TrailerHdrs, PHBNil))

ParseChunkTrailer(b, offs0, chunk) ==
    LET Stored(r, c1) ==
            IF r.err = ErrHdrEmpty \/ r.err = ErrHdrOk
                THEN CRet(r.o - 2, chunk.Size, ErrHdrOk, c1)
            ELSE CRet(r.o, chunk.Size, r.err, c1)
        AfterHeaders(r) == Stored(r, [chunk EXCEPT !.TrailerHdrs = r.hl])
    IN AfterHeaders(ParseHeaders(b, offs0, chunk.TrailerHdrs, PHBNil))

(* case sCnkParse up to the jump to case sCnkPTrailer: a result, or the   *)
(* offset and chunk (state sCnkPTrailer) the trailer is parsed with        *)
ParseChunkSize(b, offs0, chunk) ==
    LET Sized(r, c1, x) ==
            IF ~x.ok THEN CRet(offs0, -1, ErrHdrValNotNumber, c1)
            ELSE IF x.v = 0 THEN CRet(r.o, 0, ErrHdrOk, [c1 EXCEPT !.Size = 0, !.state = sCnkPTrailer])
            ELSE CRet(r.o, x.v, ErrHdrOk, [c1 EXCEPT !.Size = x.v])
        Stored(r, c1) ==
            IF r.err = ErrHdrOk THEN Sized(r, c1, hexToU(GetPField(b, r.pt.V)))
            ELSE IF r.err = ErrHdrMoreBytes THEN CRet(r.o, -1, r.err, c1)
            ELSE CRet(r.o, -1, r.err, ChunkValReset(c1))
        AfterToken(r) == Stored(r, [chunk EXCEPT !.Val = r.pt])
    IN AfterToken(ParseTokenLst(b, offs0, chunk.Val, PTokAllowParamsF))

ParseChunk(b, offs0, chunk) ==
    LET Retry(s) ==
            IF s.chunk.state = sCnkPTrailer /\ s.err = ErrHdrOk
                THEN ParseChunkTrailer(b, s.o, s.chunk)
            ELSE s
    IN Retry(IF chunk.state = sCnkParse THEN ParseChunkSize(b, offs0, chunk)
             ELSE IF chunk.state = sCnkPTrailer THEN CRet(offs0, -1, ErrHdrOk, chunk)
             ELSE CRet(0, -1, ErrHdrOk, chunk))

----------------------------------------------------------------------------
(* Messages *)

MsgInit == 0
MsgFLine == 1
MsgHeaders == 2
MsgBodyInit == 3
MsgNoBody == 4
MsgBodyCLen == 5
MsgBodyChunked == 6
MsgBodyChunkedData == 7
MsgBodyEOF == 8
MsgErr == 9
MsgNoCLen == 10
MsgFIN == 11

MsgSkipBodyF == 1
MsgNoMoreDataF == 2

(* Buf and RawMsg are slices of the caller's buffer: Buf = buf[0:Buf],   *)
(* RawMsg = buf[RawMsg.from:RawMsg.to]                                   *)
PMsgZero ==
    [FL |-> PFLineZero, PV |-> PHdrValsNew(0), HL |-> HdrLstNew(0), Body |-> PFZero,
     LastChunk |-> ChunkValZero, Buf |-> 0, RawMsg |-> [from |-> 0, to |-> 0],
     state |-> MsgInit, offs |-> 0]

PMsgReset(m) == PMsgZero

(* Init with a header array of cap entries (the private array has 10) *)
PMsgInit(cap) == [PMsgZero EXCEPT !.HL = HdrLstNew(cap)]

Parsed(m) == m.state = MsgFIN

ParsedHdrs(m) ==
    m.state \in {MsgFIN, MsgBodyCLen, MsgBodyChunked, MsgBodyChunkedData, MsgBodyEOF,
                 MsgNoBody, MsgBodyInit}

Err(m) == m.state = MsgErr

Request(m) == FLRequest(m.FL)

Method(m) == IF Request(m) THEN m.FL.MethodNo ELSE MUndef

BodyType(m, prevMethod) ==
    IF ~Request(m) /\ ((m.FL.Status > 99 /\ m.FL.Status < 200) \/ m.FL.Status = 204
                        \/ m.FL.Status = 304 \/ prevMethod = MHead)
        THEN MsgNoBody
    ELSE IF ~Request(m) /\ prevMethod = MConnect /\ m.FL.Status >= 200 /\ m.FL.Status <= 299
        THEN MsgBodyEOF
    ELSE IF HdrFlagsTest(m.HL.PFlags, HdrTrEncoding) THEN
        IF HasF(m.PV.TrEnc.Encodings, TrEncChunkedF) /\ m.PV.TrEnc.Last.Enc = TrEncChunkedF
            THEN MsgBodyChunked
        ELSE MsgBodyEOF
    ELSE IF HdrFlagsTest(m.HL.PFlags, HdrCLen) THEN MsgBodyCLen
    ELSE IF Request(m) THEN MsgNoBody
    ELSE MsgBodyEOF

MRet(o, e, m) == [o |-> o, err |-> e, m |-> m]

(* the labels "end" of SkipBody and of ParseMsg *)
MsgEnd(o, m) == [m EXCEPT !.Buf = o, !.RawMsg = [from |-> m.offs, to |-> o]]

(* SkipBody's end that goes back to the start of the body *)
SkipBodyEndBodyInit(o, m) == MRet(o, ErrHdrOk, [MsgEnd(o, m) EXCEPT !.state = MsgBodyInit])

SkipBodyEnd(o, m) == MRet(o, ErrHdrOk, [MsgEnd(o, m) EXCEPT !.state = MsgFIN])

BodyExtendIfOut(m, o) == IF ~OffsIn(m.Body, o) THEN [m EXCEPT !.Body = PFExtend(@, o)] ELSE m

(* SkipBodyCLen with the final Body.Extend(o) left out *)
SkipBodyCLenNoExtend(b, o, m, flags) ==
    IF HasF(flags, MsgSkipBodyF) THEN SkipBodyEnd(o, m)
    ELSE IF ~PUIntParsed(m.PV.CLen) THEN MRet(o, ErrHdrBug, m)
    ELSE IF o + m.PV.CLen.UIVal > BLen(b) THEN
        IF HasF(flags, MsgNoMoreDataF) THEN SkipBodyEnd(BLen(b), BodyExtendIfOut(m, o))
        ELSE MRet(o, ErrHdrMoreBytes, BodyExtendIfOut(m, o))
    ELSE SkipBodyEnd(o + m.PV.CLen.UIVal, m)

(* case MsgBodyCLen of SkipBody *)
SkipBodyCLen(b, o, m, flags) ==
    IF HasF(flags, MsgSkipBodyF) THEN SkipBodyEnd(o, m)
    ELSE IF ~PUIntParsed(m.PV.CLen) THEN MRet(o, ErrHdrBug, m)
    ELSE IF o + m.PV.CLen.UIVal > BLen(b) THEN
        IF HasF(flags, MsgNoMoreDataF) THEN SkipBodyEnd(BLen(b), BodyExtendIfOut(m, o))
        ELSE MRet(o, ErrHdrMoreBytes, BodyExtendIfOut(m, o))
    ELSE SkipBodyEnd(o + m.PV.CLen.UIVal,
                     [m EXCEPT !.Body = PFExtend(@, o + m.PV.CLen.UIVal)])

(* SkipBodyEOF that ends the body at the current offset, not at len(buf) *)
SkipBodyEOFAtOffs(b, o, m, flags) ==
    IF HasF(flags, MsgNoMoreDataF)
        THEN SkipBodyEnd(o, [m EXCEPT !.Body = PFExtend(@, o)])
    ELSE MRet(o, ErrHdrMoreBytes, BodyExtendIfOut(m, o))

(* case MsgBodyEOF of SkipBody *)
SkipBodyEOF(b, o, m, flags) ==
    IF HasF(flags, MsgNoMoreDataF)
        THEN SkipBodyEnd(BLen(b), [m EXCEPT !.Body = PFExtend(@, BLen(b))])
    ELSE MRet(o, ErrHdrMoreBytes, BodyExtendIfOut(m, o))

(* case MsgNoBody of SkipBody *)
SkipNoBody(o, m) == SkipBodyEnd(o, [m EXCEPT !.Body = PFExtend(PFSet(0, 0), o)])

RECURSIVE SkipBody(_, _, _, _)
SkipBody(b, o, m, flags) ==
    CASE m.state = MsgBodyInit ->
            LET Typed(m1) ==
                    IF m1.state = MsgErr THEN MRet(o, ErrHdrNoCLen, m1)
                    ELSE IF m1.state = MsgBodyInit THEN MRet(o, ErrHdrBug, m1)
                    ELSE SkipBody(b, o, m1, flags)
            IN Typed([m EXCEPT !.Body = PFSet(o, o), !.state = BodyType(m, MUndef)])
      [] m.state = MsgNoBody -> SkipNoBody(o, m)
      [] m.state = MsgBodyCLen -> SkipBodyCLen(b, o, m, flags)
      [] m.state = MsgBodyEOF -> SkipBodyEOF(b, o, m, flags)
      [] m.state = MsgBodyChunked ->
            IF HasF(flags, MsgSkipBodyF) THEN SkipBodyEnd(o, m)
            ELSE LET Stored(r, m1) ==
                         IF r.err = ErrHdrOk
                             THEN SkipBody(b, r.o, [m1 EXCEPT !.state = MsgBodyChunkedData], flags)
                         ELSE MRet(r.o, r.err, m1)
                     AfterChunk(r) == Stored(r, [m EXCEPT !.LastChunk = r.chunk])
                 IN AfterChunk(ParseChunk(b, o, m.LastChunk))
      [] m.state = MsgBodyChunkedData ->
            IF HasF(flags, MsgSkipBodyF) THEN SkipBodyEnd(o, m)
            ELSE LET nxt == o + m.LastChunk.Size + 2 IN
                IF nxt > BLen(b) THEN
                    IF HasF(flags, MsgNoMoreDataF)
                        THEN SkipBodyEnd(BLen(b), BodyExtendIfOut(m, o))
                    ELSE MRet(o, ErrHdrMoreBytes, BodyExtendIfOut(m, o))
                ELSE IF m.LastChunk.Size = 0 THEN SkipBodyEnd(nxt, m)
                ELSE SkipBody(b, nxt,
                        [m EXCEPT !.LastChunk = ChunkValReset(@), !.state = MsgBodyChunked], flags)
      [] OTHER -> MRet(o, ErrHdrBug, m)

(* the error labels of ParseMsg without the change of state *)
ParseMsgErrKeepState(o, e, m, flags) ==
    IF e = ErrHdrMoreBytes /\ HasF(flags, MsgNoMoreDataF) THEN MRet(o, ErrHdrTrunc, m)
    ELSE MRet(o, e, m)

(* the error labels of ParseMsg; a run-time panic unwinds past them *)
ParseMsgErr(o, e, m, flags) ==
    IF e = ErrPanic THEN MRet(o, e, m)
    ELSE IF e # ErrHdrMoreBytes THEN MRet(o, e, [m EXCEPT !.state = MsgErr])
    ELSE IF HasF(flags, MsgNoMoreDataF) THEN MRet(o, ErrHdrTrunc, m)
    ELSE MRet(o, e, m)

ParseMsgEnd(o, m) == MRet(o, ErrHdrOk, MsgEnd(o, m))

(* The cases of the switch of ParseMsg fall through: each operator below  *)
(* is one case, entered in its own state or from the case above it, and    *)
(* continues with the case below it.                                       *)

(* cases MsgBodyCLen .. MsgBodyChunkedData *)
ParseMsgBody(b, o, m, flags) ==
    LET AfterBody(r) ==
            IF r.err # ErrHdrOk THEN ParseMsgErr(r.o, r.err, r.m, flags)
            ELSE ParseMsgEnd(r.o, r.m)
    IN AfterBody(SkipBody(b, o, m, flags))

(* ParseMsgBodyInit that marks the message as fully parsed when the body is skipped *)
ParseMsgBodyInitFin(b, o, m, flags) ==
    IF m.state = MsgBodyInit /\ HasF(flags, MsgSkipBodyF)
        THEN ParseMsgEnd(o, [m EXCEPT !.Body = PFSet(o, o), !.state = MsgFIN])
    ELSE ParseMsgBody(b, o, m, flags)

(* case MsgBodyInit *)
ParseMsgBodyInit(b, o, m, flags) ==
    IF m.state = MsgBodyInit /\ HasF(flags, MsgSkipBodyF)
        THEN ParseMsgEnd(o, [m EXCEPT !.Body = PFSet(o, o)])
    ELSE ParseMsgBody(b, o, m, flags)

(* case MsgHeaders *)
ParseMsgHeaders(b, o, m, flags) ==
    LET Below(s) ==
            IF s.err # ErrHdrOk THEN ParseMsgErr(s.o, s.err, s.m, flags)
            ELSE ParseMsgBodyInit(b, s.o, s.m, flags)
        Stored(r, m1) ==
            MRet(r.o, r.err, IF r.err = ErrHdrOk THEN [m1 EXCEPT !.state = MsgBodyInit] ELSE m1)
        AfterHeaders(r) == Stored(r, [m EXCEPT !.HL = r.hl, !.PV = r.hb])
    IN Below(IF m.state = MsgHeaders THEN AfterHeaders(ParseHeaders(b, o, m.HL, m.PV))
             ELSE MRet(o, ErrHdrOk, m))

(* cases MsgInit (after m.offs is set) and MsgFLine *)
ParseMsgFLine(b, o, m, flags) ==
    LET Below(s) ==
            IF s.err # ErrHdrOk THEN ParseMsgErr(s.o, s.err, s.m, flags)
            ELSE ParseMsgHeaders(b, s.o, s.m, flags)
        Stored(r, m1) ==
            MRet(r.o, r.err, IF r.err = ErrHdrOk THEN [m1 EXCEPT !.state = MsgHeaders] ELSE m1)
        AfterFLine(r) == Stored(r, [m EXCEPT !.FL = r.pl])
    IN Below(IF m.state = MsgFLine THEN AfterFLine(ParseFLine(b, o, m.FL))
             ELSE MRet(o, ErrHdrOk, m))

(* ParseMsg whose case MsgFIN starts over on the message *)
ParseMsgFinAgain(b, offs0, m, flags) ==
    IF m.state = MsgFIN
        THEN ParseMsgFLine(b, offs0, [PMsgReset(m) EXCEPT !.offs = offs0, !.state = MsgFLine],
                           flags)
    ELSE IF m.state \in {MsgInit, MsgFLine, MsgHeaders, MsgBodyInit, MsgBodyCLen, MsgBodyEOF,
                         MsgNoBody, MsgBodyChunked, MsgBodyChunkedData}
        THEN ParseMsgFLine(b, offs0,
                 IF m.state = MsgInit THEN [m EXCEPT !.offs = offs0, !.state = MsgFLine] ELSE m,
                 flags)
    ELSE ParseMsgErr(offs0, ErrHdrBug, m, flags)

ParseMsg(b, offs0, m, flags) ==
    CASE m.state \in {MsgInit, MsgFLine, MsgHeaders, MsgBodyInit, MsgBodyCLen, MsgBodyEOF,
                      MsgNoBody, MsgBodyChunked, MsgBodyChunkedData} ->
            ParseMsgFLine(b, offs0,
                IF m.state = MsgInit THEN [m EXCEPT !.offs = offs0, !.state = MsgFLine] ELSE m,
                flags)
      [] m.state = MsgFIN -> MRet(offs0, ErrHdrOk, m)
      [] OTHER -> ParseMsgErr(offs0, ErrHdrBug, m, flags)

----------------------------------------------------------------------------
(* The messages of the model, put together from a first line, header      *)
(* lines, a body and bytes that follow the message.                       *)

RECURSIVE Cat(_)
Cat(ss) == IF ss = <<>> THEN "" ELSE Head(ss) \o Cat(Tail(ss))

CRLF == "\r\n"

FLGet == "GET / HTTP/1.1\r\n"
FLPost == "POST /a HTTP/1.1\r\n"
FL200 == "HTTP/1.1 200 OK\r\n"
FL204 == "HTTP/1.1 204 No\r\n"
FLLongVer == "HTTP/1.1111 200 OK\r\n"

HHost == "Host: a\r\n"
HServer == "Server : b\r\n"
HCLen3 == "Content-Length: 3\r\n"
HCLen0 == "content-length:0\r\n"
HTEChunked == "Transfer-Encoding: chunked\r\n"
HTEFolded == "Transfer-Encoding: gzip,\r\n chunked\r\n"
HTEGzip == "Transfer-Encoding: gzip\r\n"
HCLenNaN == "Content-Length: 1x\r\n"
HCLenBig == "Content-Length: 99999999999\r\n"
HBad == "Bad Header\r\n"

Chunk1 == "1\r\nx\r\n"
Chunk2Ext == "2;e=1\r\nxy\r\n"
ChunkSP == "1\r\n \r\n"
ChunkNaN == "zz\r\nx\r\n"
ChunkLast == "0\r\n\r\n"
ChunkLastTr == "0\r\nA: b\r\n\r\n"

(* a message: fl first line, hs header lines, body, extra bytes after the *)
(* message; framing, n (Content-Length), chunks and ntr (trailer lines)   *)
(* say how the body was built; ok tells a well-formed message             *)
Mk(fl, hs, body, extra, framing, ntr, ok) ==
    [fl |-> fl, hs |-> hs, body |-> body, extra |-> extra, framing |-> framing,
     ntr |-> ntr, ok |-> ok]

Messages ==
    { Mk(FLGet, <<HHost>>, "", "", "none", 0, TRUE),
      Mk(FLGet, <<HHost, HServer>>, "", "GE", "none", 0, TRUE),
      Mk(FLGet, <<>>, "", "", "none", 0, TRUE),
      Mk(FLPost, <<HCLen3>>, "abc", "", "clen", 0, TRUE),
      Mk(FLPost, <<HHost, HCLen3>>, "a\rc", "X", "clen", 0, TRUE),
      Mk(FL200, <<HCLen3, HServer>>, "abc", "", "clen", 0, TRUE),
      Mk(FL200, <<HCLen0>>, "", "", "clen", 0, TRUE),
      Mk(FL204, <<HCLen3>>, "", "", "none", 0, TRUE),
      Mk(FL200, <<HServer>>, "abc", "", "eof", 0, TRUE),
      Mk(FL200, <<HTEGzip>>, "abc", "", "eof", 0, TRUE),
      Mk(FLLongVer, <<HCLen0>>, "", "", "clen", 0, TRUE),
      Mk(FLPost, <<HTEChunked>>, Chunk1 \o ChunkLast, "", "chunked", 0, TRUE),
      Mk(FL200, <<HTEFolded>>, Chunk2Ext \o Chunk1 \o ChunkLastTr, "", "chunked", 1, TRUE),
      Mk(FL200, <<HTEChunked, HCLen3>>, Chunk1 \o ChunkLast, "X", "chunked", 0, TRUE),
      Mk(FLPost, <<HTEChunked>>, ChunkSP \o ChunkLast, "", "chunked", 0, TRUE),
      Mk(FLPost, <<HTEChunked>>, ChunkNaN \o ChunkLast, "", "chunked", 0, FALSE),
      Mk(FLPost, <<HCLenNaN>>, "a", "", "clen", 0, FALSE),
      Mk(FLPost, <<HCLenBig>>, "a", "", "clen", 0, FALSE),
      Mk(FLGet, <<HBad>>, "", "", "none", 0, FALSE) }

(* the offsets of the parts of message x in a buffer that starts with pad *)
(* bytes of an earlier message                                            *)
TruthOf(x, pad) ==
    LET hend == pad + Len(x.fl) + Len(Cat(x.hs)) + 2 IN
    [start |-> pad, hend |-> hend, end |-> hend + Len(x.body), nh |-> Len(x.hs),
     framing |-> x.framing, ntr |-> x.ntr, ok |-> x.ok, req |-> SubSeq(x.fl, 1, 4) # "HTTP"]

BufOf(x, pad) == [pad |-> pad, s |-> x.fl \o Cat(x.hs) \o CRLF \o x.body \o x.extra]

(* the start offset of the message with the size of the header array   *)
(* the message was initialised with                                     *)
PadCaps == {<<0, 0>>, <<2, 2>>}
MaxStep == 3

(* the slice buf[:n] *)
Vis(n) == [pad |-> buf.pad, s |-> SubSeq(buf.s, 1, n - buf.pad)]

NoErr == "None"

BtNone == [prevMethod |-> -1, res |-> -1]

InitOf(family, padcaps) ==
    /\ \E x \in family, pc \in padcaps :
        /\ buf = BufOf(x, pc[1])
        /\ truth = TruthOf(x, pc[1])
        /\ blen = pc[1]
        /\ offs = pc[1]
        /\ msg = PMsgInit(pc[2])
    /\ err = NoErr
    /\ op = "Init"
    /\ flg = 0
    /\ pure = TRUE
    /\ bt = BtNone

Init == InitOf(Messages, PadCaps)

(* the sizes by which the slice may grow before a call: up to MaxStep    *)
(* bytes or all the bytes left.  A message that is finished or failed    *)
(* is not read any more, so no growth is modelled for it.                *)
Steps ==
    IF msg.state \in {MsgFIN, MsgErr} THEN {0}
    ELSE {n \in 0..(BLen(buf) - blen) : n <= MaxStep \/ n = BLen(buf) - blen}

Called(name, f, n, r) ==
    /\ blen' = blen + n
    /\ msg' = r.m
    /\ offs' = r.o
    /\ err' = r.err
    /\ op' = name
    /\ flg' = f
    /\ pure' = (pure /\ name = "ParseMsg" /\ f = 0 /\ n >= 1)
    /\ UNCHANGED <<buf, truth, bt>>

CallParseMsg(n, f) ==
    /\ err # ErrPanic
    /\ Called("ParseMsg", f, n, ParseMsg(Vis(blen + n), offs, msg, f))

CallSkipBody(n, f) ==
    /\ err # ErrPanic
    /\ ParsedHdrs(msg)
    /\ Called("SkipBody", f, n, SkipBody(Vis(blen + n), offs, msg, f))

CallReset ==
    /\ op # "Init"
    /\ op # "Reset"
    /\ msg' = PMsgReset(msg)
    /\ blen' = buf.pad
    /\ offs' = buf.pad
    /\ err' = NoErr
    /\ op' = "Reset"
    /\ flg' = 0
    /\ pure' = TRUE
    /\ UNCHANGED <<buf, truth, bt>>

MsgFlags == {0, MsgSkipBodyF, MsgNoMoreDataF, MsgSkipBodyF + MsgNoMoreDataF}

Next ==
    \/ \E n \in Steps, f \in MsgFlags : CallParseMsg(n, f)
    \/ \E n \in Steps, f \in MsgFlags : CallSkipBody(n, f)
    \/ CallReset

Spec == Init /\ [][Next]_vars

(***************************************************************************)
(* Claims                                                                  *)
(***************************************************************************)



(* the result of parsing the whole buffer with one ParseMsg call, flags 0, *)
(* on a message with the header array of the one under test                *)
OneCall == ParseMsg(buf, buf.pad, PMsgInit(Len(msg.HL.Hdrs)), 0)

SameResult(m, ref) ==
    /\ m.state = MsgFIN
    /\ m.FL.Status = ref.FL.Status
    /\ m.FL.MethodNo = ref.FL.MethodNo
    /\ m.HL.N = ref.HL.N
    /\ m.HL.PFlags = ref.HL.PFlags

(* C1: when one ParseMsg call on the whole buffer returns Ok at offset    *)
(* end, then feeding strictly growing prefixes (flags 0, same message,    *)
(* offset of the previous call) returns MoreBytes on every prefix shorter *)
(* than end, and on the prefix of length end returns Ok at end in state   *)
(* Fin with the status, method, header count and parsed-header flags of   *)
(* the single call.                                                       *)
C1_Fragmentation ==
    (pure /\ op = "ParseMsg" /\ OneCall.err = ErrHdrOk /\ blen <= OneCall.o) =>
        IF blen < OneCall.o THEN err = ErrHdrMoreBytes
        ELSE err = ErrHdrOk /\ offs = OneCall.o /\ SameResult(msg, OneCall.m)

(* the fragmented run has delivered B[:end] and ended as the single call did *)
C1_Witness ==
    /\ pure /\ op = "ParseMsg" /\ blen > buf.pad + MaxStep
    /\ OneCall.err = ErrHdrOk /\ blen = OneCall.o
    /\ err = ErrHdrOk /\ offs = OneCall.o /\ SameResult(msg, OneCall.m)

(* the span [from, to) *)
Span(from, to) == [Offs |-> from, Len |-> to - from]

(* only ParseMsg calls with flags 0 were made on a well-formed message, *)
(* and the slice holds the message up to offset upto                    *)
Fed(upto) == pure /\ op = "ParseMsg" /\ truth.ok /\ blen >= upto

(* C2: for a request without Transfer-Encoding and Content-Length,     *)
(* ParseMsg (flags 0) returns Ok at the offset just past the empty     *)
(* line that ends the headers, the state is Fin and the body span is   *)
(* empty.                                                              *)
C2_RequestNoBody ==
    (Fed(truth.hend) /\ truth.req /\ truth.framing = "none") =>
        /\ err = ErrHdrOk
        /\ offs = truth.hend
        /\ Parsed(msg)
        /\ PFEmpty(msg.Body)

(* a request with one header and no body is parsed to the end: Ok, Fin *)
C2_Witness ==
    /\ Fed(truth.hend) /\ truth.req /\ truth.framing = "none" /\ truth.nh = 1
    /\ err = ErrHdrOk /\ offs = truth.hend /\ Parsed(msg)

(* C3: for a message framed by Content-Length N, once the slice holds  *)
(* the whole message ParseMsg returns Ok at (end of headers) + N, the  *)
(* state is Fin, the body span is the N bytes after the headers and    *)
(* the parsed-header flags hold the Content-Length bit.                *)
C3_ContentLengthBody ==
    (Fed(truth.end) /\ truth.framing = "clen") =>
        /\ err = ErrHdrOk
        /\ offs = truth.end
        /\ Parsed(msg)
        /\ msg.Body = Span(truth.hend, truth.end)
        /\ HdrFlagsTest(msg.HL.PFlags, HdrCLen)

(* a message with a body of three bytes, delivered in several pieces, is done *)
C3_Witness ==
    /\ Fed(truth.end) /\ truth.framing = "clen" /\ truth.end = truth.hend + 3
    /\ blen = truth.end /\ truth.start > 0
    /\ err = ErrHdrOk /\ Parsed(msg) /\ msg.Body = Span(truth.hend, truth.end)

(***************************************************************************)
(* Chunked bodies consumed by SkipBody alone, as TestSkipBodyChunks does:  *)
(* the message is put in state MsgBodyChunked with an empty body at the    *)
(* start of the chunks, and SkipBody is called on growing slices as long   *)
(* as it asks for more bytes.                                              *)
(***************************************************************************)

(* a chunk: its header line (for the last chunk with the trailer headers), *)
(* and its data, which a CRLF follows                                      *)
Cnk(h, d) == [h |-> h, d |-> d]

ChunkBlocks ==
    { <<Cnk("1\r\n", "x"), Cnk("0\r\n", "")>>,
      <<Cnk("2;e=1\r\n", "xy"), Cnk("1\r\n", "y"), Cnk("0\r\nA: b\r\n", "")>>,
      <<Cnk("03\r\n", "a\nb"), Cnk("0\r\n", "")>>,
      <<Cnk("A\r\n", "0123456789"), Cnk("0\r\nA: b\r\nC:d\r\n", "")>>,
      <<Cnk("1\r\n", " "), Cnk("0\r\n", "")>>,
      <<Cnk("2\r\n", "\tz"), Cnk("1\r\n", "x"), Cnk("0\r\n", "")>> }

RECURSIVE CatChunks(_)
CatChunks(cs) ==
    IF cs = <<>> THEN "" ELSE Head(cs).h \o Head(cs).d \o CRLF \o CatChunks(Tail(cs))

(* for every chunk: where its header starts, where its data starts and *)
(* the size of its data                                                *)
RECURSIVE ChunkMarks(_, _)
ChunkMarks(cs, from) ==
    IF cs = <<>> THEN <<>>
    ELSE LET c == Head(cs)
             ds == from + Len(c.h)
         IN <<[hs |-> from, ds |-> ds, size |-> Len(c.d)]>>
                \o ChunkMarks(Tail(cs), ds + Len(c.d) + 2)

InitChunk ==
    /\ \E cs \in ChunkBlocks, pc \in PadCaps :
        /\ buf = [pad |-> pc[1], s |-> CatChunks(cs)]
        /\ truth = [start |-> pc[1], end |-> pc[1] + Len(CatChunks(cs)),
                    marks |-> ChunkMarks(cs, pc[1])]
        /\ blen = pc[1]
        /\ offs = pc[1]
        /\ msg = [PMsgZero EXCEPT !.state = MsgBodyChunked, !.Body = PFSet(pc[1], pc[1])]
    /\ err = NoErr
    /\ op = "Init"
    /\ flg = 0
    /\ pure = TRUE
    /\ bt = BtNone

CallSkipChunks(n) ==
    /\ err \in {NoErr, ErrHdrMoreBytes}
    /\ Called("SkipBody", 0, n, SkipBody(Vis(blen + n), offs, msg, 0))

NextChunk == \E n \in 0..(BLen(buf) - blen) : CallSkipChunks(n)

SpecChunk == InitChunk /\ [][NextChunk]_vars

(* C4: starting in state BodyChunked, for chunks followed by the empty  *)
(* chunk and every fragmentation, SkipBody returns MoreBytes on every   *)
(* slice that ends before the final CRLF, stopping either inside a      *)
(* chunk header (state BodyChunked; for the last chunk up to the final  *)
(* CRLF) or at the start of the data of the chunk whose size it holds   *)
(* (state BodyChunkedData), and returns Ok at the end of the buffer in  *)
(* state Fin once the final CRLF is there.                              *)
C4_ChunkedConsumption ==
    (op = "SkipBody") =>
        IF blen < truth.end THEN
            /\ err = ErrHdrMoreBytes
            /\ \E k \in 1..Len(truth.marks) :
                LET c == truth.marks[k] IN
                \/ /\ msg.state = MsgBodyChunked
                   /\ offs >= c.hs
                   /\ offs < c.ds \/ (c.size = 0 /\ offs = c.ds)
                \/ /\ msg.state = MsgBodyChunkedData
                   /\ offs = c.ds /\ msg.LastChunk.Size = c.size
        ELSE err = ErrHdrOk /\ offs = truth.end /\ Parsed(msg)

(* a body of two data chunks and a last chunk with a trailer, consumed *)
(* piecewise: one call stopped in the data of the second chunk ...     *)
C4_Witness ==
    /\ op = "SkipBody" /\ Len(truth.marks) = 3 /\ blen < truth.end
    /\ err = ErrHdrMoreBytes /\ msg.state = MsgBodyChunkedData
    /\ offs = truth.marks[2].ds

(* C5: when ParseMsg completes a chunked message with Ok, the body span  *)
(* runs from the first byte after the empty line of the headers to the   *)
(* returned end offset, the last parsed chunk has size 0 and its trailer *)
(* header list counts the trailer lines of the message.                  *)
C5_ChunkedBodySpan ==
    (pure /\ op = "ParseMsg" /\ truth.framing = "chunked" /\ err = ErrHdrOk /\ Parsed(msg)) =>
        /\ msg.Body = Span(truth.hend, offs)
        /\ msg.LastChunk.Size = 0
        /\ msg.LastChunk.TrailerHdrs.N = truth.ntr

(* a chunked message with one trailer line is completed at its end, the *)
(* last chunk and its trailer are as claimed                            *)
C5_Witness ==
    /\ pure /\ op = "ParseMsg" /\ truth.framing = "chunked" /\ truth.ntr = 1
    /\ err = ErrHdrOk /\ Parsed(msg) /\ offs = truth.end
    /\ msg.LastChunk.Size = 0 /\ msg.LastChunk.TrailerHdrs.N = 1

(* a ParseMsg call with the SkipBody flag on a message whose body no    *)
(* earlier call has entered, on a slice that holds the first line and   *)
(* the headers (at least one) of a well-formed message                  *)
SkipBodyCall ==
    /\ op' = "ParseMsg"
    /\ HasF(flg', MsgSkipBodyF)
    /\ msg.state <= MsgBodyInit
    /\ truth.ok /\ truth.nh > 0
    /\ blen' >= truth.hend

SkipBodyResult ==
    /\ err' = ErrHdrOk
    /\ offs' = truth.hend
    /\ msg'.Body = Span(truth.hend, truth.hend)

ShortCLenCall ==
    /\ op' = "ParseMsg"
    /\ flg' = MsgNoMoreDataF
    /\ msg.state \in {MsgInit, MsgFLine, MsgHeaders, MsgBodyInit, MsgBodyCLen}
    /\ truth.ok /\ truth.framing = "clen"
    /\ blen' >= truth.hend /\ blen' < truth.end

(* C7: in state BodyCLen, when the buffer holds fewer body bytes than    *)
(* Content-Length says and the caller passes NoMoreData, the body span   *)
(* is extended to len(buf) and the parser returns Trunc.                 *)
C7_ShortBodyTrunc ==
    [][ShortCLenCall =>
        (err' = ErrHdrTrunc /\ msg'.Body = Span(truth.hend, blen'))]_vars

(* such a call was made with one byte of a three byte body in the slice *)
C7_Witness ==
    /\ op = "ParseMsg" /\ flg = MsgNoMoreDataF
    /\ truth.ok /\ truth.framing = "clen"
    /\ blen = truth.hend + 1 /\ truth.end = truth.hend + 3
    /\ offs = blen /\ err = ErrHdrOk /\ Parsed(msg)

(* a ParseMsg or SkipBody call made in state BodyEOF *)
EOFCall == msg.state = MsgBodyEOF /\ op' \in {"ParseMsg", "SkipBody"}

(* C8: in state BodyEOF every call without NoMoreData returns MoreBytes, *)
(* keeps the state BodyEOF and the body span starts at the end of the    *)
(* header block; a call with NoMoreData returns Ok at len(buf) with the  *)
(* body span [end of the header block, len(buf)) and state Fin.          *)
C8_BodyEOF ==
    [][EOFCall =>
        IF HasF(flg', MsgNoMoreDataF)
            THEN /\ err' = ErrHdrOk
                 /\ offs' = blen'
                 /\ msg'.Body = Span(truth.hend, blen')
                 /\ Parsed(msg')
        ELSE /\ err' = ErrHdrMoreBytes
             /\ msg'.state = MsgBodyEOF
             /\ msg'.Body.Offs = truth.hend]_vars

(* a response without Content-Length, ended by SkipBody with NoMoreData *)
(* when the slice holds all its bytes                                   *)
C8_Witness ==
    /\ op = "SkipBody" /\ flg = MsgNoMoreDataF /\ truth.framing = "eof"
    /\ blen = truth.end /\ truth.end > truth.hend
    /\ err = ErrHdrOk /\ offs = blen /\ Parsed(msg)
    /\ msg.Body = Span(truth.hend, blen)

(***************************************************************************)
(* BodyType on messages whose headers were parsed: every first line of     *)
(* FirstLines with every header block of HdrBlocks, asked with every       *)
(* previous method.                                                        *)
(***************************************************************************)

(* a response line with the three status digits d; st is their value *)
Rpl(d, st) == [fl |-> "HTTP/1.1 " \o d \o " OK\r\n", req |-> FALSE, status |-> st]

Req(fl) == [fl |-> fl, req |-> TRUE, status |-> 0]

FirstLines ==
    { Req(FLGet), Req(FLPost),
      Rpl("000", 0), Rpl("100", 100), Rpl("199", 199), Rpl("200", 200), Rpl("204", 204),
      Rpl("299", 299), Rpl("300", 300), Rpl("304", 304), Rpl("404", 404) }

(* a header block: its lines, the transfer-codings of all its         *)
(* Transfer-Encoding lines in order, whether it has a Content-Length  *)
Blk(hs, te, clen) == [hs |-> hs, te |-> te, clen |-> clen]

HdrBlocks ==
    { Blk(<<HHost>>, <<>>, FALSE),
      Blk(<<HCLen3>>, <<>>, TRUE),
      Blk(<<HTEChunked>>, <<"chunked">>, FALSE),
      Blk(<<HTEGzip>>, <<"gzip">>, FALSE),
      Blk(<<HTEChunked, HCLen3>>, <<"chunked">>, TRUE),
      Blk(<<HCLen0, HTEGzip>>, <<"gzip">>, TRUE),
      Blk(<<"Transfer-Encoding: chunked, gzip\r\n">>, <<"chunked", "gzip">>, FALSE),
      Blk(<<HTEFolded>>, <<"gzip", "chunked">>, FALSE),
      Blk(<<HTEGzip, HHost, HTEChunked>>, <<"gzip", "chunked">>, FALSE),
      Blk(<<HTEChunked, HTEGzip>>, <<"chunked", "gzip">>, FALSE),
      Blk(<<"transfer-encoding:Chunked\r\n">>, <<"chunked">>, FALSE) }

InitBT ==
    /\ \E l \in FirstLines, h \in HdrBlocks, pc \in PadCaps :
        /\ buf = [pad |-> pc[1], s |-> l.fl \o Cat(h.hs) \o CRLF]
        /\ truth = [start |-> pc[1], hend |-> pc[1] + Len(l.fl \o Cat(h.hs)) + 2,
                    req |-> l.req, status |-> l.status, te |-> h.te, clen |-> h.clen]
        /\ blen = pc[1]
        /\ offs = pc[1]
        /\ msg = PMsgInit(pc[2])
    /\ err = NoErr
    /\ op = "Init"
    /\ flg = 0
    /\ pure = TRUE
    /\ bt = BtNone

(* the headers are parsed by one ParseMsg call that leaves the body alone *)
CallParseHdrs ==
    /\ op = "Init"
    /\ Called("ParseMsg", MsgSkipBodyF, BLen(buf) - blen,
              ParseMsg(buf, offs, msg, MsgSkipBodyF))

CallBodyType(pm) ==
    /\ ParsedHdrs(msg)
    /\ bt' = [prevMethod |-> pm, res |-> BodyType(msg, pm)]
    /\ op' = "BodyType"
    /\ UNCHANGED <<buf, truth, blen, msg, offs, err, flg, pure>>

NextBT == CallParseHdrs \/ \E pm \in MUndef..MOther : CallBodyType(pm)

SpecBT == InitBT /\ [][NextBT]_vars

(* the framing decision list, read off the message as it was written *)
Framing(pm) ==
    IF ~truth.req /\ ((truth.status >= 100 /\ truth.status <= 199)
                      \/ truth.status \in {204, 304} \/ pm = MHead)
        THEN MsgNoBody
    ELSE IF ~truth.req /\ truth.status >= 200 /\ truth.status <= 299 /\ pm = MConnect
        THEN MsgBodyEOF
    ELSE IF truth.te # <<>> THEN
        IF truth.te[Len(truth.te)] = "chunked" THEN MsgBodyChunked ELSE MsgBodyEOF
    ELSE IF truth.clen THEN MsgBodyCLen
    ELSE IF truth.req THEN MsgNoBody
    ELSE MsgBodyEOF

(* C9: BodyType(prevMethod) is the framing decision list, for every kind *)
(* of message, status, previous method and header block: NoBody for a    *)
(* 1xx, 204 or 304 response and for any response to HEAD; else BodyEOF   *)
(* for a 2xx response to CONNECT; else with Transfer-Encoding            *)
(* BodyChunked when the last coding of the message is chunked and        *)
(* BodyEOF otherwise; else BodyCLen with Content-Length; else NoBody for *)
(* a request and BodyEOF for a response.                                 *)
C9_BodyType ==
    (op = "BodyType") => bt.res = Framing(bt.prevMethod)

(* BodyType answered BodyChunked for a 200 response whose last coding, *)
(* on a second Transfer-Encoding line, is chunked                      *)
C9_Witness ==
    /\ op = "BodyType" /\ ~truth.req /\ truth.status = 200
    /\ Len(truth.te) = 2 /\ bt.prevMethod = MGet
    /\ bt.res = MsgBodyChunked /\ bt.res = Framing(bt.prevMethod)

DataErrors == {ErrHdrBadChar, ErrHdrValNotNumber, ErrHdrNumTooBig, ErrHdrNoCLen}

(* a ParseMsg call on a failed message: no progress, no Ok, still failed *)
FailedStays ==
    (Err(msg) /\ op' = "ParseMsg") =>
        (Err(msg') /\ offs' = offs /\ err' # ErrHdrOk /\ msg' = msg)

Transient == {ErrHdrMoreBytes, ErrHdrMoreValues, ErrHdrEmpty, ErrHdrEOH}

(* C11: the transient signals MoreBytes, MoreValues, Empty and EOH never *)
(* put a parser in its Err state: after a ParseMsg or SkipBody call that *)
(* ends with one of them the message is not in state Err.                *)
C11_TransientNotErr ==
    (op \in {"ParseMsg", "SkipBody"} /\ err \in Transient) => ~Err(msg)

(* ParseMsg answered MoreBytes inside the header block and the message *)
(* is in state Headers, not Err                                        *)
C11_Witness ==
    /\ op = "ParseMsg" /\ err = ErrHdrMoreBytes /\ msg.state = MsgHeaders
    /\ offs > truth.start /\ blen < truth.hend /\ ~Err(msg)

(* the ParseMsg call just made, repeated on the same slice, offset and *)
(* message without the NoMoreData flag                                  *)
WithoutNoMoreData == ParseMsg(Vis(blen'), offs, msg, flg' - MsgNoMoreDataF)

(* a ParseMsg call with NoMoreData on a slice of a well-formed message *)
(* that ends before the end of its header block                        *)
TruncCall ==
    /\ op' = "ParseMsg" /\ HasF(flg', MsgNoMoreDataF)
    /\ truth.ok /\ blen' < truth.hend
    /\ msg.state \in {MsgInit, MsgFLine, MsgHeaders}

(* the call answered Trunc and left the message and the offset as the *)
(* call without the flag, which answers MoreBytes, leaves them        *)
TruncKeeps(ref) ==
    /\ err' = ErrHdrTrunc
    /\ ref.err = ErrHdrMoreBytes
    /\ offs' = ref.o
    /\ msg' = ref.m

(* C12: ParseMsg with NoMoreData on a buffer that ends before the end of *)
(* the header block returns Trunc, and the message and the returned      *)
(* offset are those of the same call without NoMoreData, so that a later *)
(* call on the extended buffer goes on and ends as if the truncated      *)
(* calls had been made without the flag.                                 *)
C12_TruncResumable ==
    [][ TruncCall => TruncKeeps(WithoutNoMoreData) ]_vars

(* a call with NoMoreData answered Trunc after the first of two header *)
(* lines: the message is in state Headers and holds that header        *)
C12_Witness ==
    /\ op = "ParseMsg" /\ HasF(flg, MsgNoMoreDataF) /\ err = ErrHdrTrunc
    /\ truth.ok /\ truth.nh = 2 /\ blen < truth.hend
    /\ msg.state = MsgHeaders /\ msg.HL.N = 1 /\ offs > truth.start

(* the ParseMsg call of this step returned Ok at the offset it was given *)
(* and changed no field of the message                                   *)
Untouched == op' = "ParseMsg" /\ err' = ErrHdrOk /\ offs' = offs /\ msg' = msg

InitCap == (CHOOSE pc \in PadCaps : pc[1] = buf.pad)[2]

(* the headers the caller finds in the header array *)
StoredHdrs(hl) ==
    SubSeq(hl.Hdrs, 1, IF hl.N < Len(hl.Hdrs) THEN hl.N ELSE Len(hl.Hdrs))

(* what a caller reads from a message: state, first line, header count, *)
(* flags, first-occurrence table, stored headers, values and body       *)
ParsedValues(m) ==
    [state |-> m.state, offs |-> m.offs, FL |-> m.FL, PV |-> m.PV, N |-> m.HL.N,
     PFlags |-> m.HL.PFlags, h |-> m.HL.h, Hdrs |-> StoredHdrs(m.HL),
     Body |-> m.Body, LastChunk |-> m.LastChunk]

(* the ParseMsg call of this step, made on a freshly initialised message *)
FreshCall == ParseMsg(Vis(blen'), offs, PMsgInit(InitCap), flg')

SameOutcome(ref) ==
    /\ offs' = ref.o
    /\ err' = ref.err
    /\ ParsedValues(msg') = ParsedValues(ref.m)

(* C14: Reset round-trip: for a message in any state, Reset followed by *)
(* parsing the buffer from its start yields the offset, the status and  *)
(* the parsed values that a freshly initialised message yields.         *)
C14_ResetRoundTrip ==
    [][ (op = "Reset" /\ op' = "ParseMsg") => SameOutcome(FreshCall) ]_vars

(* a message initialised with a header array was reset and parsed again *)
(* to its end: offset, status, header count and first line are those of *)
(* the message                                                          *)
C14_Witness ==
    /\ op = "ParseMsg" /\ InitCap = 2 /\ Len(msg.HL.Hdrs) = 0
    /\ truth.ok /\ truth.nh = 2 /\ err = ErrHdrOk /\ Parsed(msg)
    /\ offs = truth.end /\ msg.HL.N = 2

(***************************************************************************)
(* ParseChunk on the growing slices of one chunk                           *)
(***************************************************************************)

(* chunk headers with their data: sized chunks, last chunks with and      *)
(* without trailer, with CRLF, single LF and single CR line ends (the     *)
(* single CR is followed by the first byte of the next message)           *)
ChunkPieces ==
    { "4\r\nWiki\r\n", "2;e=1\r\nxy\r\n", "zz\r\nx\r\n",
      "0\r\n\r\n", "0000\r\n\r\n", "0\r\nA: b\r\n\r\n",
      "0\r\n\n", "0\n\n", "0\r\nA: b\n\n", "0\r\n\rG", "0\r\nA: b\r\n\rG" }

InitPC ==
    /\ \E s \in ChunkPieces, pc \in PadCaps :
        /\ buf = [pad |-> pc[1], s |-> s]
        /\ truth = [start |-> pc[1], end |-> pc[1] + Len(s)]
        /\ blen = pc[1]
        /\ offs = pc[1]
    /\ msg = PMsgZero
    /\ err = NoErr
    /\ op = "Init"
    /\ flg = 0
    /\ pure = TRUE
    /\ bt = BtNone

(* o, sz, err = ParseChunk(buf[:end], o, cv) *)
ChunkCalled(n, r) ==
    /\ blen' = blen + n
    /\ msg' = [msg EXCEPT !.LastChunk = r.chunk]
    /\ offs' = r.o
    /\ err' = r.err
    /\ op' = "ParseChunk"
    /\ UNCHANGED <<buf, truth, flg, pure, bt>>

CallParseChunk(n) ==
    /\ err \in {NoErr, ErrHdrMoreBytes}
    /\ ChunkCalled(n, ParseChunk(Vis(blen + n), offs, msg.LastChunk))

NextPC == \E n \in 0..(BLen(buf) - blen) : CallParseChunk(n)

SpecPC == InitPC /\ [][NextPC]_vars

TokenSpans(pt) == {pt.V, pt.Params, pt.LastParam.All, pt.LastParam.Name, pt.LastParam.Val}

(* the spans an aggregate stores *)
AggSpans(u) ==
    {u.LastParsed} \cup TokenSpans(u.First.Val) \cup TokenSpans(u.Last.Val)
        \cup UNION {TokenSpans(u.Vals[k].Val) : k \in 1..VNo(u)}

(* every span a parsed message stores *)
StoredSpans(m) ==
    {m.FL.Method, m.FL.URI, m.FL.Version, m.FL.StatusCode, m.FL.Reason}
        \cup {StoredHdrs(m.HL)[k].Name : k \in 1..Len(StoredHdrs(m.HL))}
        \cup {StoredHdrs(m.HL)[k].Val : k \in 1..Len(StoredHdrs(m.HL))}
        \cup {m.HL.h[k].Name : k \in 1..Len(m.HL.h)}
        \cup {m.HL.h[k].Val : k \in 1..Len(m.HL.h)}
        \cup {m.PV.CLen.SVal}
        \cup AggSpans(m.PV.Upgrade) \cup AggSpans(m.PV.TrEnc)
        \cup AggSpans(m.PV.WSProto) \cup AggSpans(m.PV.WSExt)
        \cup {m.Body} \cup TokenSpans(m.LastChunk.Val)

(* a span that was never set is the zero span *)
SpanInside(p, from, to) == p = PFZero \/ (p.Offs >= from /\ EndOffs(p) <= to)

(* C16: span validity: whenever ParseMsg returns Ok at offset end, every *)
(* stored span (first line, header names and values, aggregate tokens,   *)
(* body, last chunk token) starts at or after the start of the message   *)
(* and has offset + length <= end.                                       *)
C16_SpanValidity ==
    (op = "ParseMsg" /\ err = ErrHdrOk) =>
        \A p \in StoredSpans(msg) : SpanInside(p, truth.start, offs)

(* a message that starts at offset 2 with Transfer-Encoding and two     *)
(* chunks was parsed to its end: every span lies inside the message     *)
C16_Witness ==
    /\ op = "ParseMsg" /\ err = ErrHdrOk /\ Parsed(msg) /\ truth.start = 2
    /\ truth.framing = "chunked" /\ offs = truth.end
    /\ msg.PV.TrEnc.N >= 1 /\ ~PFEmpty(msg.LastChunk.Val.V)
    /\ \A p \in StoredSpans(msg) : SpanInside(p, truth.start, offs)

(***************************************************************************)
(* SkipBody on a Content-Length body that ends around offset 65 536        *)
(***************************************************************************)

(* Content-Length values: the message is FLPost, the Content-Length line *)
(* and the empty line (43 bytes), then the body                          *)
BigCLens == {"65480", "65490", "65491", "65492", "65493", "65494", "65500", "65536", "70000"}

BigHdrs(t) == [pad |-> 0, s |-> FLPost \o "Content-Length: " \o t \o CRLF \o CRLF]

(* the slice buf[:n]: SkipBody reads no byte of a Content-Length body, *)
(* the slice is given by its length                                     *)
BigVis(n) == [pad |-> n, s |-> ""]

(* how far before the end of the body the slices are followed byte by byte *)
BigWindow == 8

(* the state after ParseMsg with MsgSkipBodyF has parsed the headers *)
BigStart(t, r) ==
    /\ buf = BigVis(r.o + r.m.PV.CLen.UIVal)
    /\ truth = [start |-> 0, hend |-> r.o, end |-> r.o + r.m.PV.CLen.UIVal, clen |-> t]
    /\ blen = r.o
    /\ offs = r.o
    /\ msg = r.m
    /\ err = r.err

InitBig ==
    /\ \E t \in BigCLens : BigStart(t, ParseMsg(BigHdrs(t), 0, PMsgInit(2), MsgSkipBodyF))
    /\ op = "ParseMsg"
    /\ flg = MsgSkipBodyF
    /\ pure = FALSE
    /\ bt = BtNone

BigCalled(n, f, r) ==
    /\ blen' = n
    /\ msg' = r.m
    /\ offs' = r.o
    /\ err' = r.err
    /\ op' = "SkipBody"
    /\ flg' = f
    /\ UNCHANGED <<buf, truth, pure, bt>>

CallSkipBig(n, f) ==
    /\ err \in {ErrHdrOk, ErrHdrMoreBytes}
    /\ ~Parsed(msg)
    /\ BigCalled(n, f, SkipBody(BigVis(n), offs, msg, f))

NextBig ==
    \E n \in (truth.end - BigWindow)..truth.end, f \in {0, MsgNoMoreDataF} :
        n >= blen /\ CallSkipBig(n, f)

SpecBig == InitBig /\ [][NextBig]_vars

(* the span stored for [from, to) is its truncation to 16 bits *)
Wrapped(p, from, to) ==
    /\ from >= OffsTMod \/ to - from >= OffsTMod
    /\ p = [Offs |-> from % OffsTMod, Len |-> (to - from) % OffsTMod]

(* C17: a message extending beyond 65 535 bytes is rejected: no parser  *)
(* call returns Ok with a span whose 16-bit offset or length has        *)
(* wrapped.                                                             *)
C17_NoWrappedSpan ==
    (op = "SkipBody" /\ err = ErrHdrOk) => ~Wrapped(msg.Body, truth.hend, offs)

(* SkipBody returned Ok for a message that ends at offset 65 535: the *)
(* body span is the body                                              *)
C17_Witness ==
    /\ op = "SkipBody" /\ err = ErrHdrOk /\ Parsed(msg) /\ flg = 0
    /\ offs = truth.end /\ offs = OffsTMod - 1
    /\ msg.Body = Span(truth.hend, truth.end)

(* C18: after every successful ParseFLine exactly one of "the method    *)
(* span is not empty" (request) and "the numeric status is not zero"    *)
(* (response) holds, for every accepted three-digit status, so that     *)
(* Request() is true exactly for the lines parsed as requests.          *)
C18_RequestXorStatus ==
    (op = "ParseMsg" /\ FLParsed(msg.FL)) =>
        /\ (~PFEmpty(msg.FL.Method)) # (msg.FL.Status # 0)
        /\ Request(msg) <=> truth.req

(* the status line with status 404 was parsed: no method span, status *)
(* 404, Request() false                                               *)
C18_Witness ==
    /\ op = "ParseMsg" /\ FLParsed(msg.FL) /\ ~truth.req /\ truth.status = 404
    /\ PFEmpty(msg.FL.Method) /\ msg.FL.Status = 404 /\ ~Request(msg)

(***************************************************************************)
(* The multi-valued headers: values, counters and accessors                *)
(***************************************************************************)

NoVal == [nil |-> TRUE]

(* PUpgrade.Empty, and the same method of the other aggregates *)
AggEmpty(u) == u.N = 0

(* PUpgrade.More, and the same method of the other aggregates *)
AggMore(u) == u.N > Len(u.Vals)

(* the accessor without the remembered first value *)
AggGetInVals(kind, u, n) == IF VNo(u) > n THEN u.Vals[n + 1] ELSE NoVal

(* PUpgrade.GetProto, PWSProto.GetProto, PWSExt.GetExt, PTrEnc.GetExt *)
AggGet(kind, u, n) ==
    IF VNo(u) > n THEN u.Vals[n + 1]
    ELSE IF AggEmpty(u) THEN NoVal
    ELSE IF n = 0 THEN u.First
    ELSE IF kind = HdrTrEncoding /\ n = VNo(u) - 1 THEN u.Last
    ELSE NoVal

(* a header line with its kind and its values in order, each value with *)
(* the flag it stands for                                               *)
AggLine(kind, text, vals) == [kind |-> kind, text |-> text, vals |-> vals]

LUpg1 == AggLine(HdrUpgrade, "Upgrade: websocket\r\n", <<<<"websocket", UProtoWSockF>>>>)
LUpg2 == AggLine(HdrUpgrade, "upgrade: h2c , foo/1\r\n",
                 <<<<"h2c", UProtoHTTP2F>>, <<"foo/1", UProtoOtherF>>>>)
LTrE1 == AggLine(HdrTrEncoding, HTEFolded, <<<<"gzip", TrEncGzipF>>, <<"chunked", TrEncChunkedF>>>>)
LTrE2 == AggLine(HdrTrEncoding, "Transfer-Encoding: x;q=1,deflate,GZIP\r\n",
                 <<<<"x", TrEncOtherF>>, <<"deflate", TrEncDeflateF>>, <<"GZIP", TrEncGzipF>>>>)
LWSP1 == AggLine(HdrWSockProto, "Sec-WebSocket-Protocol: sip, xmpp\r\n",
                 <<<<"sip", WSProtoSIPF>>, <<"xmpp", WSProtoXMPPF>>>>)
LWSP2 == AggLine(HdrWSockProto, "Sec-WebSocket-Protocol: v1\r\n", <<<<"v1", WSProtoOtherF>>>>)
LWSE1 == AggLine(HdrWSockExt, "Sec-WebSocket-Extensions: permessage-deflate; a=1, y\r\n",
                 <<<<"permessage-deflate", WSExtPMsgDeflateF>>, <<"y", WSExtOtherF>>>>)
LWSE2 == AggLine(HdrWSockExt, "Sec-WebSocket-Extensions: z\r\n", <<<<"z", WSExtOtherF>>>>)
LHost == AggLine(HdrHost, HHost, <<>>)

AggBlocks ==
    { <<LHost>>, <<LUpg1>>, <<LUpg2, LHost, LUpg1>>, <<LTrE1, LTrE2>>, <<LWSP1, LWSP2>>,
      <<LWSE1, LWSE2>>, <<LWSP2, LUpg2, LWSE1>> }

RECURSIVE AggText(_)
AggText(ls) == IF ls = <<>> THEN "" ELSE Head(ls).text \o AggText(Tail(ls))

(* the values of the lines of one kind, in arrival order *)
RECURSIVE AggVals(_, _)
AggVals(ls, kind) ==
    IF ls = <<>> THEN <<>>
    ELSE (IF Head(ls).kind = kind THEN Head(ls).vals ELSE <<>>) \o AggVals(Tail(ls), kind)

(* the number of lines of one kind *)
RECURSIVE AggLines(_, _)
AggLines(ls, kind) ==
    IF ls = <<>> THEN 0
    ELSE (IF Head(ls).kind = kind THEN 1 ELSE 0) + AggLines(Tail(ls), kind)

(* the sizes of the caller's value arrays *)
AggSlots == {0, 1, 2}

InitAgg ==
    /\ \E ls \in AggBlocks, pc \in PadCaps, L \in AggSlots :
        /\ buf = [pad |-> pc[1], s |-> FLGet \o AggText(ls) \o CRLF]
        /\ truth = [start |-> pc[1], hend |-> pc[1] + Len(FLGet \o AggText(ls)) + 2,
                    slots |-> L,
                    vals |-> [k \in AggKinds |-> AggVals(ls, k)],
                    hno |-> [k \in AggKinds |-> AggLines(ls, k)]]
        /\ blen = pc[1]
        /\ offs = pc[1]
        /\ msg = [PMsgInit(pc[2]) EXCEPT !.PV = PHdrValsNew(L)]
    /\ err = NoErr
    /\ op = "Init"
    /\ flg = 0
    /\ pure = TRUE
    /\ bt = BtNone

(* the headers are parsed by ParseMsg calls that leave the body alone, *)
(* on growing slices                                                   *)
CallParseAgg(n) ==
    /\ err \in {NoErr, ErrHdrMoreBytes}
    /\ Called("ParseMsg", MsgSkipBodyF, n, ParseMsg(Vis(blen + n), offs, msg, MsgSkipBodyF))

NextAgg == \E n \in Steps : CallParseAgg(n)

SpecAgg == InitAgg /\ [][NextAgg]_vars

(* the aggregate of a kind *)
AggOf(m, kind) == m.PV[AggField(kind)]

RECURSIVE OrAll(_)
OrAll(vs) ==
    IF vs = <<>> THEN 0
    ELSE LET Add(rest, f) == IF HasF(rest, f) THEN rest ELSE rest + f
         IN Add(OrAll(Tail(vs)), Head(vs)[2])

(* C19: bitmask union: for each multi-valued header kind (Upgrade,       *)
(* Transfer-Encoding, Sec-WebSocket-Protocol, Sec-WebSocket-Extensions), *)
(* after the headers are parsed the cumulative bitmask is the OR of the  *)
(* flags of all values of all lines of the kind, those that did not fit  *)
(* in the caller's array included, for every fragmentation.              *)
C19_BitmaskUnion ==
    (op = "ParseMsg" /\ err = ErrHdrOk) =>
        \A k \in AggKinds : AggOf(msg, k).Encodings = OrAll(truth.vals[k])

(* two Transfer-Encoding lines with five values were parsed into an    *)
(* array of one slot: the bitmask has the flags of all of them         *)
C19_Witness ==
    /\ op = "ParseMsg" /\ err = ErrHdrOk /\ truth.slots = 1
    /\ Len(truth.vals[HdrTrEncoding]) = 5
    /\ msg.PV.TrEnc.Encodings
         = TrEncGzipF + TrEncChunkedF + TrEncOtherF + TrEncDeflateF

MinOf(a, c) == IF a < c THEN a ELSE c

(* the value is the token t with flag f, read from the buffer *)
IsValue(v, tf) == v # NoVal /\ GetPField(buf, v.Val.V) = tf[1] /\ v.Enc = tf[2]

(* the counters, slots and accessors of an aggregate with L slots after *)
(* the values vs on hno lines                                           *)
AggCounts(kind, u, vs, hno, L) ==
    /\ Len(u.Vals) = L
    /\ u.N = Len(vs)
    /\ u.HNo = hno
    /\ \A i \in 1..MinOf(Len(vs), L) : IsValue(u.Vals[i], vs[i])
    /\ VNo(u) = MinOf(Len(vs), L)
    /\ AggMore(u) <=> Len(vs) > L
    /\ IF Len(vs) = 0 THEN AggGet(kind, u, 0) = NoVal
       ELSE IsValue(AggGet(kind, u, 0), vs[1])

(* C20: for every aggregate with a caller array of L slots (L >= 0),   *)
(* after the header lines under any fragmentation: N is the number of  *)
(* values found, HNo the number of header lines of the kind, the slots *)
(* 0..min(N,L)-1 hold the first min(N,L) values in arrival order,      *)
(* VNo() is min(N,L), More() holds exactly when N > L, and the         *)
(* accessor for index 0 returns the first value whenever N >= 1 (also  *)
(* when L = 0) and nothing when N = 0.                                 *)
C20_AggregateCounts ==
    (op = "ParseMsg" /\ err = ErrHdrOk) =>
        \A k \in AggKinds :
            AggCounts(k, AggOf(msg, k), truth.vals[k], truth.hno[k], truth.slots)

(* three Upgrade values on two lines were parsed without any slot: N is *)
(* 3, HNo is 2, More() holds and GetProto(0) is the first value         *)
C20_Witness ==
    /\ op = "ParseMsg" /\ err = ErrHdrOk /\ truth.slots = 0
    /\ Len(truth.vals[HdrUpgrade]) = 3 /\ msg.PV.Upgrade.N = 3 /\ msg.PV.Upgrade.HNo = 2
    /\ AggMore(msg.PV.Upgrade) /\ VNo(msg.PV.Upgrade) = 0
    /\ IsValue(AggGet(HdrUpgrade, msg.PV.Upgrade, 0), <<"h2c", UProtoHTTP2F>>)

(***************************************************************************)
(* Messages with several Content-Length headers                            *)
(***************************************************************************)

HCLen5 == "Content-Length: 5\r\n"

(* the body is as long as the first Content-Length says; the later *)
(* Content-Length lines say something else or nothing usable       *)
CLenMessages ==
    { Mk(FLPost, <<HCLen3, HCLen5>>, "abc", "de", "clen", 0, TRUE),
      Mk(FLPost, <<HCLen5, HHost, HCLen3>>, "abcde", "", "clen", 0, TRUE),
      Mk(FL200, <<HCLen3, HCLen3>>, "abc", "", "clen", 0, TRUE),
      Mk(FL200, <<HCLen0, HCLen3, HCLen5>>, "", "abc", "clen", 0, TRUE),
      Mk(FL200, <<HCLen3, HCLenNaN>>, "abc", "", "clen", 0, TRUE),
      Mk(FLPost, <<HCLen3, HCLenBig, HServer>>, "abc", "X", "clen", 0, TRUE) }

InitCLen == InitOf(CLenMessages, PadCaps)

SpecCLen == InitCLen /\ [][Next]_vars

(* C21: when a message carries several Content-Length headers the value  *)
(* of the first one is kept and delimits the body; every later           *)
(* Content-Length header is counted as a header, changes neither the     *)
(* stored value nor the framing, and causes no error.                    *)
C21_FirstContentLength ==
    /\ (op \in {"ParseMsg", "SkipBody"} /\ ParsedHdrs(msg)) =>
            /\ PUIntParsed(msg.PV.CLen)
            /\ msg.PV.CLen.UIVal = truth.end - truth.hend
            /\ msg.HL.N = truth.nh
    /\ Fed(truth.end) =>
            /\ err = ErrHdrOk /\ offs = truth.end /\ Parsed(msg)
            /\ msg.Body = Span(truth.hend, truth.end)

(* Content-Length 3, then NaN-valued and further lines: parsed to the end *)
(* with the first value 3 and all three headers counted                   *)
C21_Witness ==
    /\ Fed(truth.end) /\ truth.nh = 3 /\ truth.end = truth.hend + 3
    /\ err = ErrHdrOk /\ offs = truth.end /\ Parsed(msg)
    /\ msg.PV.CLen.UIVal = 3 /\ msg.HL.N = 3 /\ msg.Body = Span(truth.hend, truth.end)

(***************************************************************************)
(* ParseChunk on sized chunks followed by their data                       *)
(***************************************************************************)

(* chunk header and chunk data: the size written in hex (leading zeros,  *)
(* both letter cases, with an extension), data of letters, digits,       *)
(* separators, line ends, and data starting with a space or a tab        *)
DataChunks ==
    { <<"4\r\n", "Wiki">>, <<"004\r\n", "Wiki">>, <<"2;e=1\r\n", "xy">>,
      <<"a\r\n", "0123456789">>, <<"0B;x\r\n", "0123456789A">>,
      <<"1\r\n", ",">>, <<"2\r\n", "\r\n">>, <<"3\r\n", "a b">>,
      <<"3\r\n", " xy">>, <<"3\r\n", "\txy">>, <<"1\r\n", " ">> }

InitCD ==
    /\ \E c \in DataChunks, pc \in PadCaps :
        /\ buf = [pad |-> pc[1], s |-> c[1] \o c[2] \o CRLF]
        /\ truth = [start |-> pc[1], data |-> pc[1] + Len(c[1]), size |-> Len(c[2]),
                    end |-> pc[1] + Len(c[1]) + Len(c[2]) + 2]
        /\ blen = pc[1]
        /\ offs = pc[1]
    /\ msg = PMsgZero
    /\ err = NoErr
    /\ op = "Init"
    /\ flg = 0
    /\ pure = TRUE
    /\ bt = BtNone

SpecCD == InitCD /\ [][NextPC]_vars

(* what ParseChunk returns for a sized chunk: Ok, the size, the offset of *)
(* the first data byte                                                    *)
SizedChunkResult(r) ==
    /\ r.err = ErrHdrOk
    /\ r.size = truth.size
    /\ r.chunk.Size = truth.size
    /\ r.o = truth.data
    /\ r.o + r.size + 2 = truth.end

(* C22: for every non-final chunk header hex-size[;ext] CRLF (leading    *)
(* zeros allowed) followed by its data, whatever the data bytes,         *)
(* ParseChunk returns Ok, the returned size and chunk.Size equal the hex *)
(* value, and the returned offset is the first byte of the chunk data,   *)
(* so that offset + size + 2 is the start of the next chunk header.      *)
C22_SizedChunk ==
    [][ (op' = "ParseChunk" /\ blen' = truth.end) =>
            SizedChunkResult(ParseChunk(Vis(blen'), offs, msg.LastChunk)) ]_vars

(* the chunk "a" CRLF with its ten data bytes, parsed on the whole chunk *)
C22_Witness ==
    /\ op = "ParseChunk" /\ blen = truth.end /\ truth.size = 10
    /\ err = ErrHdrOk /\ msg.LastChunk.Size = 10 /\ offs = truth.data

(***************************************************************************)
(* ParseChunk on last chunks with their trailer                            *)
(***************************************************************************)

(* the size line of a last chunk, its trailer header lines, and the bytes *)
(* of a next message that follow the closing empty line                   *)
LastChunks ==
    { <<h, t, x>> : h \in {"0\r\n", "000\r\n", "0;x=1\r\n"},
                    t \in { <<>>, <<"A: b\r\n">>, <<"A: b\n">>, <<"Expires: 0\r\n", HHost>>,
                            <<"X:\r\n y\r\n", HCLen3, "A: b\r\n">> },
                    x \in {"", "GET"} }

InitLC ==
    /\ \E c \in LastChunks, pc \in PadCaps :
        /\ buf = [pad |-> pc[1], s |-> c[1] \o Cat(c[2]) \o CRLF \o c[3]]
        /\ truth = [start |-> pc[1], k |-> Len(c[2]),
                    end |-> pc[1] + Len(c[1]) + Len(Cat(c[2])) + 2]
        /\ blen = pc[1]
        /\ offs = pc[1]
    /\ msg = PMsgZero
    /\ err = NoErr
    /\ op = "Init"
    /\ flg = 0
    /\ pure = TRUE
    /\ bt = BtNone

SpecLC == InitLC /\ [][NextPC]_vars

(* what ParseChunk returns for a last chunk, by the end of the buffer *)
LastChunkResult(end, r) ==
    IF end <= truth.end - 2 THEN r.err = ErrHdrMoreBytes
    ELSE IF end >= truth.end THEN
        /\ r.err = ErrHdrOk
        /\ r.size = 0
        /\ r.chunk.Size = 0
        /\ r.chunk.TrailerHdrs.N = truth.k
        /\ r.o = truth.end - 2
    ELSE TRUE

(* C23: for every final chunk (size 0) followed by k >= 0 trailer header *)
(* lines and the terminating empty line, ParseChunk returns Ok with size *)
(* 0, a trailer header list of count k, and the offset just before the   *)
(* terminating CRLF; on every buffer that ends before that empty line it *)
(* returns MoreBytes, and a later call with the returned offset gives    *)
(* the same result.                                                      *)
C23_LastChunk ==
    [][ (op' = "ParseChunk") =>
            LastChunkResult(blen', ParseChunk(Vis(blen'), offs, msg.LastChunk)) ]_vars

(* a last chunk with three trailer lines, the first one folded, parsed *)
(* to its end                                                          *)
C23_Witness ==
    /\ op = "ParseChunk" /\ blen >= truth.end /\ truth.k = 3
    /\ err = ErrHdrOk /\ offs = truth.end - 2
    /\ msg.LastChunk.TrailerHdrs.N = 3 /\ msg.LastChunk.Size = 0
    /\ msg.LastChunk.TrailerHdrs.PFlags # 0

(***************************************************************************)
(* ParseChunk on chunk sizes that are not hexadecimal numbers              *)
(***************************************************************************)

(* the size token, the index of its first byte that is no hex digit, and *)
(* what follows the token                                                *)
BadSizes ==
    { <<"zz", 0>>, <<"4g", 1>>, <<"g4", 0>>, <<"12x4", 2>>, <<"ffh", 2>>, <<"1G", 1>> }
        \X { "\r\nWiki\r\n", ";e=1\r\nxy\r\n" }

InitNH ==
    /\ \E c \in BadSizes, pc \in PadCaps :
        /\ buf = [pad |-> pc[1], s |-> c[1][1] \o c[2]]
        /\ truth = [start |-> pc[1], bad |-> pc[1] + c[1][2],
                    end |-> pc[1] + Len(c[1][1]) + Len(c[2])]
        /\ blen = pc[1]
        /\ offs = pc[1]
    /\ msg = PMsgZero
    /\ err = NoErr
    /\ op = "Init"
    /\ flg = 0
    /\ pure = TRUE
    /\ bt = BtNone

SpecNH == InitNH /\ [][NextPC]_vars

(* C24: when the chunk-size token contains a non-hexadecimal digit,      *)
(* ParseChunk returns ValNotNumber and the returned offset points at the *)
(* first offending byte of the size token, the same offset for every     *)
(* fragmentation of the input.                                           *)
C24_NotNumberOffset ==
    (op = "ParseChunk" /\ blen = truth.end) =>
        (err = ErrHdrValNotNumber /\ offs = truth.bad)

(* every fragmentation ends with ValNotNumber *)
C24_NotNumberStatus ==
    (op = "ParseChunk" /\ blen = truth.end) => err = ErrHdrValNotNumber

(* the size "12x4" rejected with ValNotNumber by a call on the whole chunk *)
C24_Witness ==
    /\ op = "ParseChunk" /\ blen = truth.end /\ err = ErrHdrValNotNumber
    /\ truth.bad = truth.start + 2

(***************************************************************************)
(* ParseHdrLine on the growing slices of one header line                   *)
(***************************************************************************)

(* header name, value, kind, and whether the value is well formed for *)
(* the kind: a number for Content-Length, a comma separated list of   *)
(* tokens for the kinds that have a list in the aggregate             *)
HdrNameVals ==
    { <<"Host", "a.b", HdrHost, TRUE>>, <<"hOsT", "a:8", HdrHost, TRUE>>,
      <<"Content-Length", "12", HdrCLen, TRUE>>, <<"CONTENT-length", "007", HdrCLen, TRUE>>,
      <<"Transfer-Encoding", "gzip, chunked", HdrTrEncoding, TRUE>>,
      <<"transfer-encoding", "chunked", HdrTrEncoding, TRUE>>,
      <<"Upgrade", "a/1, b/2,  c", HdrUpgrade, TRUE>>,
      <<"Sec-WebSocket-Protocol", "chat, sip", HdrWSockProto, TRUE>>,
      <<"sec-websocket-extensions", "a; b=1", HdrWSockExt, TRUE>>,
      <<"Server", "Foo \tBar 5.0", HdrServer, TRUE>>,
      <<"Foo", "generic\r\n header", HdrOther, TRUE>>, <<"X-Host", "h", HdrOther, TRUE>>,
      <<"Content-Length", "1x", HdrCLen, FALSE>>,
      <<"Transfer-Encoding", "gzip chunked", HdrTrEncoding, FALSE>>,
      <<"Upgrade", "a@b", HdrUpgrade, FALSE>> }

(* the whitespace before the colon, before the value and after the value *)
HdrWS ==
    { <<"", "", "">>, <<"", " ", "">>, <<" ", " ", " ">>,
      <<"\t", "\r\n ", "\r\n\t">>, <<"", "\n ", "\r ">>, <<" ", " \r\n  ", "\t">> }

(* the start of the next line: the empty line or a header name *)
HdrNextLine == {"\r\n", "X"}

InitHL ==
    /\ \E c \in HdrNameVals, w \in HdrWS, x \in HdrNextLine, pad \in {0, 2}, phb \in BOOLEAN :
        /\ buf = [pad |-> pad, s |-> c[1] \o w[1] \o ":" \o w[2] \o c[2] \o w[3] \o CRLF \o x]
        /\ truth = [start |-> pad, phb |-> phb, kind |-> c[3], wf |-> c[4],
                    name |-> Span(pad, pad + Len(c[1])),
                    val |-> Span(pad + Len(c[1]) + Len(w[1]) + 1 + Len(w[2]),
                                 pad + Len(c[1]) + Len(w[1]) + 1 + Len(w[2]) + Len(c[2])),
                    end |-> pad + Len(c[1]) + Len(w[1]) + 1 + Len(w[2]) + Len(c[2])
                                + Len(w[3]) + 2]
        /\ blen = pad
        /\ offs = pad
    /\ msg = [PMsgInit(0) EXCEPT !.PV = PHdrValsNew(2)]
    /\ err = NoErr
    /\ op = "Init"
    /\ flg = 0
    /\ pure = TRUE
    /\ bt = BtNone

(* o, err = ParseHdrLine(buf[:end], o, &hdr, phb) *)
HdrLineCalled(n, r) ==
    /\ blen' = blen + n
    /\ msg' = [msg EXCEPT !.HL.hdr = r.h, !.PV = IF truth.phb THEN r.hb ELSE @]
    /\ offs' = r.o
    /\ err' = r.err
    /\ op' = "ParseHdrLine"
    /\ UNCHANGED <<buf, truth, flg, pure, bt>>

CallParseHdrLine(n) ==
    /\ err \in {NoErr, ErrHdrMoreBytes}
    /\ HdrLineCalled(n, ParseHdrLine(Vis(blen + n), offs, msg.HL.hdr,
                                     IF truth.phb THEN msg.PV ELSE PHBNil))

NextHL == \E n \in 0..(BLen(buf) - blen) : CallParseHdrLine(n)

SpecHL == InitHL /\ [][NextHL]_vars

(* C25: for every header line name WS* : LWS* value LWS* CRLF followed   *)
(* by a line that does not start with SP/HTAB, the name in any letter    *)
(* case, the LWS possibly holding folds, ParseHdrLine returns Ok with    *)
(* the offset just past the line's CRLF, the kind resolved without       *)
(* regard to case (Other when unrecognised), the name span equal to the  *)
(* name and the value span equal to the value without leading or         *)
(* trailing whitespace; with or without a header-values aggregate.       *)
C25_HdrLine ==
    (op = "ParseHdrLine" /\ blen > truth.end /\ (truth.wf \/ ~truth.phb)) =>
        /\ err = ErrHdrOk
        /\ offs = truth.end
        /\ msg.HL.hdr.Type = truth.kind
        /\ msg.HL.hdr.Name = truth.name
        /\ msg.HL.hdr.Val = truth.val

(* a Transfer-Encoding line with folds around its two values, parsed with *)
(* a header-values aggregate                                              *)
C25_Witness ==
    /\ op = "ParseHdrLine" /\ blen > truth.end /\ truth.phb /\ truth.wf
    /\ truth.kind = HdrTrEncoding /\ truth.val.Len = 13
    /\ At(buf, truth.val.Offs - 1) = " " /\ At(buf, truth.val.Offs - 2) = "\n"
    /\ err = ErrHdrOk /\ offs = truth.end /\ msg.HL.hdr.Val = truth.val
    /\ msg.PV.TrEnc.N = 2

(***************************************************************************)
(* ParseHeaders on the growing slices of one header block                  *)
(***************************************************************************)

(* a header line as name, value and kind; its text is name ": " value CRLF *)
LnHostA == <<"Host", "a", HdrHost>>
LnHostB == <<"host", "b.c", HdrHost>>
LnFoo == <<"Foo", "x y", HdrOther>>
LnBar == <<"X-Bar", "z", HdrOther>>
LnCLen3 == <<"Content-Length", "3", HdrCLen>>
LnCLen5 == <<"content-length", "5", HdrCLen>>
LnTrEnc == <<"Transfer-Encoding", "gzip, chunked", HdrTrEncoding>>
LnUpgA == <<"Upgrade", "a, b", HdrUpgrade>>
LnUpgC == <<"upgrade", "c", HdrUpgrade>>
LnServer == <<"Server", "S/1", HdrServer>>
LnWSExt == <<"Sec-WebSocket-Extensions", "a; b=1", HdrWSockExt>>

HdrLineBlocks ==
    { <<LnHostA>>, <<LnFoo, LnHostA, LnBar>>,
      <<LnCLen3, LnTrEnc, LnHostB, LnCLen5>>,
      <<LnUpgA, LnUpgC>>, <<LnHostA, LnHostB, LnServer>>,
      <<LnWSExt, LnServer>> }

LineText(ln) == ln[1] \o ": " \o ln[2] \o CRLF

(* what the k-th line of a block that starts at offset at looks like: *)
(* kind, name span, value span                                        *)
RECURSIVE LineTruth(_, _)
LineTruth(lines, at) ==
    IF lines = <<>> THEN <<>>
    ELSE <<[Type |-> Head(lines)[3],
            Name |-> Span(at, at + Len(Head(lines)[1])),
            Val |-> Span(at + Len(Head(lines)[1]) + 2,
                         at + Len(Head(lines)[1]) + 2 + Len(Head(lines)[2]))]>>
         \o LineTruth(Tail(lines), at + Len(LineText(Head(lines))))

RECURSIVE BlockText(_)
BlockText(lines) == IF lines = <<>> THEN "" ELSE LineText(Head(lines)) \o BlockText(Tail(lines))

(* sizes of the caller's Hdrs array *)
HdrCaps == {0, 1, 2, 4}

InitHS ==
    /\ \E ls \in HdrLineBlocks, cap \in HdrCaps, pad \in {0, 2}, phb \in BOOLEAN :
        /\ buf = [pad |-> pad, s |-> BlockText(ls) \o CRLF]
        /\ truth = [start |-> pad, phb |-> phb, lines |-> LineTruth(ls, pad),
                    end |-> pad + Len(BlockText(ls)) + 2]
        /\ msg = [PMsgInit(cap) EXCEPT !.PV = PHdrValsNew(2)]
        /\ blen = pad
        /\ offs = pad
    /\ err = NoErr
    /\ op = "Init"
    /\ flg = 0
    /\ pure = TRUE
    /\ bt = BtNone

(* o, err = ParseHeaders(buf[:end], o, &hl, phb) *)
HeadersCalled(n, r) ==
    /\ blen' = blen + n
    /\ msg' = [msg EXCEPT !.HL = r.hl, !.PV = IF truth.phb THEN r.hb ELSE @]
    /\ offs' = r.o
    /\ err' = r.err
    /\ op' = "ParseHeaders"
    /\ UNCHANGED <<buf, truth, flg, pure, bt>>

CallParseHeaders(n) ==
    /\ err \in {NoErr, ErrHdrMoreBytes}
    /\ HeadersCalled(n, ParseHeaders(Vis(blen + n), offs, msg.HL,
                                     IF truth.phb THEN msg.PV ELSE PHBNil))

NextHS ==
    \E n \in 0..(BLen(buf) - blen) :
        (n <= MaxStep \/ n = BLen(buf) - blen) /\ CallParseHeaders(n)

SpecHS == InitHS /\ [][NextHS]_vars

(* the kinds of the lines of the block *)
KindsOf(lines) == {lines[k].Type : k \in 1..Len(lines)}

(* the header describes the line: kind, name span, value span *)
Describes(h, ln) == h.Type = ln.Type /\ h.Name = ln.Name /\ h.Val = ln.Val

(* C26: after ParseHeaders returns Ok, for every size of the caller's    *)
(* Hdrs array (none included), N is the number of header lines before    *)
(* the empty line, Hdrs[k] for k < min(N, len(Hdrs)) describes the k-th  *)
(* header line in arrival order, and the parsed-flags mask holds exactly *)
(* the bits of the kinds that occurred (the Other bit for unrecognised   *)
(* names).                                                               *)
C26_HeaderList ==
    (op = "ParseHeaders" /\ err = ErrHdrOk) =>
        /\ offs = truth.end
        /\ msg.HL.N = Len(truth.lines)
        /\ \A k \in 1..MinOf(msg.HL.N, Len(msg.HL.Hdrs)) :
                Describes(msg.HL.Hdrs[k], truth.lines[k])
        /\ \A t \in HdrNone..HdrOther :
                HdrFlagsTest(msg.HL.PFlags, t) <=> t \in KindsOf(truth.lines)
        /\ msg.HL.PFlags < 2 ^ (HdrOther + 1)

(* four lines parsed into an array of two: N = 4, both slots filled *)
C26_Witness ==
    /\ op = "ParseHeaders" /\ err = ErrHdrOk /\ offs = truth.end
    /\ Len(truth.lines) = 4 /\ msg.HL.N = 4 /\ Len(msg.HL.Hdrs) = 2
    /\ Describes(msg.HL.Hdrs[2], truth.lines[2])
    /\ HdrFlagsTest(msg.HL.PFlags, HdrHost)

(* the index of the first of the first n lines that has kind t, 0 if none *)
FirstOfKind(lines, n, t) ==
    IF \E k \in 1..n : lines[k].Type = t
        THEN CHOOSE k \in 1..n : lines[k].Type = t /\ \A j \in 1..(k - 1) : lines[j].Type # t
    ELSE 0

(* C27: first-occurrence table: for every recognised kind k that occurred, *)
(* GetHdr(k) is a copy of the first header line of kind k (name and value  *)
(* spans); later headers of the same kind never overwrite it.              *)
C27_FirstOccurrence ==
    (op = "ParseHeaders" /\ err \in {ErrHdrOk, ErrHdrMoreBytes}) =>
        \A t \in (HdrNone + 1)..(HdrOther - 1) :
            FirstOfKind(truth.lines, msg.HL.N, t) # 0 =>
                Describes(GetHdr(msg.HL, t), truth.lines[FirstOfKind(truth.lines, msg.HL.N, t)])

(* two Host lines parsed: GetHdr(HdrHost) is the first, "Host: a" *)
C27_Witness ==
    /\ op = "ParseHeaders" /\ err = ErrHdrOk /\ Len(truth.lines) = 3
    /\ truth.lines[1].Type = HdrHost /\ truth.lines[2].Type = HdrHost
    /\ msg.HL.N = 3
    /\ Describes(GetHdr(msg.HL, HdrHost), truth.lines[1])
    /\ ~Describes(GetHdr(msg.HL, HdrHost), truth.lines[2])

(* C28: GetHdr(t) returns nil when no header of kind t has been parsed, *)
(* and for the kinds None and Other; it returns a header only when a    *)
(* header of kind t was parsed.                                         *)
C28_GetHdrNil ==
    \A t \in HdrNone..HdrOther :
        IsNil(GetHdr(msg.HL, t)) <=>
            (t \in {HdrNone, HdrOther} \/ FirstOfKind(truth.lines, msg.HL.N, t) = 0)

(* a Server line was parsed and GetHdr(HdrServer) returns it, not nil *)
C28_Witness ==
    /\ op = "ParseHeaders" /\ err = ErrHdrOk
    /\ FirstOfKind(truth.lines, msg.HL.N, HdrServer) # 0
    /\ ~IsNil(GetHdr(msg.HL, HdrServer))
    /\ GetHdr(msg.HL, HdrServer).Type = HdrServer
    /\ IsNil(GetHdr(msg.HL, HdrOther))

(***************************************************************************)
(* Iterating ParseTokenLst over a token list                               *)
(***************************************************************************)

(* separators with a comma, and separators of whitespace and folds only *)
CommaSeps == {",", ", ", " ,", ",,", " , \r\n ,", ",\r\n\t", "\t,\n ,  "}

SpaceSeps == {" ", "  \t", "\r\n ", " \n\t", "\r "}

TokenWords == { <<"a">>, <<"a", "bc">>, <<"a", "bc", "d-e">>, <<"chunked", "x">> }

(* the text of the tokens with sep between them *)
RECURSIVE Joined(_, _)
Joined(ws, sep) ==
    IF Len(ws) = 1 THEN Head(ws)
    ELSE Head(ws) \o sep \o Joined(Tail(ws), sep)

(* the spans of the tokens when the first token starts at offset at *)
RECURSIVE WordSpans(_, _, _)
WordSpans(ws, sep, at) ==
    IF ws = <<>> THEN <<>>
    ELSE <<Span(at, at + Len(Head(ws)))>>
         \o WordSpans(Tail(ws), sep, at + Len(Head(ws)) + Len(sep))

(* what stands before the first and after the last token *)
EndSeps == {"", " ", ",", "\r\n ", ", ,"}

(* a token list: text before the first token, the tokens, the separator  *)
(* between them, the text after the last token, and the flags the text   *)
(* needs                                                                 *)
TokenLists ==
    { <<lead, ws, sep, trail, fl>> \in
        EndSeps \X TokenWords \X (SpaceSeps \cup CommaSeps) \X EndSeps
            \X {PTokCommaSepF, PTokSpSepF, PTokCommaSepF + PTokSpSepF} :
        /\ (lead \in {",", ", ,"} \/ trail \in {",", ", ,"}) => HasF(fl, PTokCommaSepF)
        /\ (Len(ws) > 1 /\ sep \in CommaSeps) => HasF(fl, PTokCommaSepF)
        /\ (Len(ws) > 1 /\ sep \in SpaceSeps) => HasF(fl, PTokSpSepF)
        /\ (Len(ws) = 1 => sep = ",") }

(* one flag decides: the text, the flag, the offset of the byte that is *)
(* rejected without the flag, and the token spans found with the flag   *)
FlagCases ==
    { <<"a b", PTokSpSepF, 2, <<Span(0, 1), Span(2, 3)>> >>,
      <<"a \r\n bc", PTokSpSepF, 5, <<Span(0, 1), Span(5, 7)>> >>,
      <<"a,b", PTokCommaSepF, 1, <<Span(0, 1), Span(2, 3)>> >>,
      <<"a ,b", PTokCommaSepF, 2, <<Span(0, 1), Span(3, 4)>> >>,
      <<",a", PTokCommaSepF, 0, <<Span(1, 2)>> >>,
      <<"ab/c", PTokAllowSlashF, 2, <<Span(0, 4)>> >>,
      <<"a;p=1", PTokAllowParamsF, 1, <<Span(0, 1)>> >>,
      <<"a ;p", PTokAllowParamsF, 2, <<Span(0, 1)>> >> }

(* the flags that do not change how the text of the flag case is read *)
OtherFlags(f) ==
    { s \in {0, PTokCommaSepF, PTokSpSepF, PTokAllowSlashF, PTokAllowParamsF,
             PTokCommaSepF + PTokSpSepF, PTokAllowSlashF + PTokAllowParamsF} :
        ~HasF(s, f) }

(* tokens with slashes, read with AllowSlash: text and token spans *)
SlashCases ==
    { <<"HTTP/1.1", <<Span(0, 8)>> >>, <<"a/b/c", <<Span(0, 5)>> >>,
      <<"ab//c", <<Span(0, 5)>> >>, <<"sip", <<Span(0, 3)>> >>,
      <<"x/y, a/b/c", <<Span(0, 3), Span(5, 10)>> >>,
      <<" IRC/6.9,RTA/x11/", <<Span(1, 8), Span(9, 17)>> >> }

(* buffers that end inside the token list: text, token spans and the *)
(* flags next to InputEnd                                            *)
EndCases ==
    { <<"foo", <<Span(0, 3)>>, 0>>, <<"foo\r\n", <<Span(0, 3)>>, 0>>,
      <<"foo\r", <<Span(0, 3)>>, 0>>, <<"foo\n", <<Span(0, 3)>>, 0>>,
      <<"foo ", <<Span(0, 3)>>, 0>>, <<" foo \t\r\n", <<Span(1, 4)>>, PTokSpSepF>>,
      <<"foo\r\n ", <<Span(0, 3)>>, 0>>,
      <<"a, bar", <<Span(0, 1), Span(3, 6)>>, PTokCommaSepF>>,
      <<"a, bar\r", <<Span(0, 1), Span(3, 6)>>, PTokCommaSepF>>,
      <<"a,b ,", <<Span(0, 1), Span(2, 3)>>, PTokCommaSepF>>,
      <<"a b , \r\n", <<Span(0, 1), Span(2, 3)>>, PTokCommaSepF + PTokSpSepF>>,
      <<"a/b c", <<Span(0, 3), Span(4, 5)>>, PTokSpSepF + PTokAllowSlashF>>,
      <<"", <<>>, 0>>, <<" ", <<>>, 0>>, <<"\r\n", <<>>, 0>>, <<" \t\r", <<>>, PTokSpSepF>>,
      <<",, ", <<>>, PTokCommaSepF>> }

TokenInputs ==
    { [family |-> "end", text |-> c[1], flags |-> c[3] + e, toks |-> c[2], bad |-> -1] :
            c \in EndCases, e \in {0, PTokInputEndF} }
    \cup
    { [family |-> "slash", text |-> c[1], flags |-> PTokAllowSlashF + s, toks |-> c[2],
       bad |-> -1] : c \in SlashCases, s \in {PTokCommaSepF, PTokCommaSepF + PTokAllowParamsF} }
    \cup
    { [family |-> "list", text |-> c[1] \o Joined(c[2], c[3]) \o c[4], flags |-> c[5],
       toks |-> WordSpans(c[2], c[3], Len(c[1])), bad |-> -1] : c \in TokenLists }
    \cup
    UNION { { [family |-> "flag", text |-> c[1], flags |-> s + c[2], toks |-> c[4],
               bad |-> -1] : s \in OtherFlags(c[2]) } : c \in FlagCases }
    \cup
    UNION { { [family |-> "flag", text |-> c[1], flags |-> s, toks |-> c[4],
               bad |-> c[3]] : s \in OtherFlags(c[2]) } : c \in FlagCases }

(* the span moved by pad bytes *)
Moved(p, pad) == [Offs |-> p.Offs + pad, Len |-> p.Len]

(* the caller's PToken is kept in the Val of msg.LastChunk *)
InitTL ==
    /\ \E c \in TokenInputs, pad \in {0, 2}, x \in {"\r\n", "X"} :
        /\ buf = [pad |-> pad, s |-> IF c.family = "end" THEN c.text ELSE c.text \o CRLF \o x]
        /\ truth = [start |-> pad, family |-> c.family,
                    toks |-> [k \in 1..Len(c.toks) |-> Moved(c.toks[k], pad)],
                    bad |-> IF c.bad < 0 THEN -1 ELSE c.bad + pad,
                    end |-> pad + Len(c.text) + (IF c.family = "end" THEN 0 ELSE 2)]
        /\ flg = c.flags
        /\ blen = pad + Len(c.text) + (IF c.family = "end" THEN 0 ELSE 2 + Len(x))
        /\ offs = pad
    /\ msg = PMsgZero
    /\ err = NoErr
    /\ op = "Init"
    /\ pure = TRUE
    /\ bt = BtNone

(* o, err = ParseTokenLst(buf, o, &tok, flags) *)
TokenLstCalled(r) ==
    /\ msg' = [msg EXCEPT !.LastChunk.Val = r.pt]
    /\ offs' = r.o
    /\ err' = r.err
    /\ op' = "ParseTokenLst"
    /\ UNCHANGED <<buf, truth, blen, flg, pure, bt>>

(* the first call, and the calls after MoreValues with the token reset *)
CallParseTokenLst ==
    /\ err \in {NoErr, ErrHdrMoreValues}
    /\ TokenLstCalled(ParseTokenLst(buf, offs,
            IF err = ErrHdrMoreValues THEN PTokenReset(msg.LastChunk.Val)
            ELSE msg.LastChunk.Val, flg))

NextTL == CallParseTokenLst

SpecTL == InitTL /\ [][NextTL]_vars

(* which token a call that starts at offset o is to find: the first one *)
(* for the first call, else the token that starts at o (0: none does)   *)
TokenAt(o) ==
    IF op = "Init" THEN 1
    ELSE IF \E j \in 1..Len(truth.toks) : truth.toks[j].Offs = o
        THEN CHOOSE j \in 1..Len(truth.toks) : truth.toks[j].Offs = o
    ELSE 0

(* the call found the j-th token, and returned MoreValues at the first *)
(* byte of the next token, or Ok just past the line end after the last *)
FoundToken(j, pt, o, e) ==
    /\ j # 0
    /\ pt.V = truth.toks[j]
    /\ IF j < Len(truth.toks)
        THEN e = ErrHdrMoreValues /\ o = truth.toks[j + 1].Offs
        ELSE e = ErrHdrOk /\ o = truth.end

(* C29: iterating ParseTokenLst over a token list (resetting the token  *)
(* and re-entering at the returned offset while it returns MoreValues)  *)
(* yields exactly the non-empty tokens, once each, in order, each span  *)
(* free of whitespace and separators, whatever the number of allowed    *)
(* separators (commas, spaces, folded line breaks) between, before or   *)
(* after the tokens; every MoreValues offset is the first byte of the   *)
(* next token and the final call returns Ok with the offset just past   *)
(* the line's CRLF.                                                     *)
C29_TokenIteration ==
    [][ (op' = "ParseTokenLst" /\ truth.family = "list") =>
            FoundToken(TokenAt(offs), msg'.LastChunk.Val, offs', err') ]_vars

(* three tokens separated by commas and a fold, the last call at its end *)
C29_Witness ==
    /\ op = "ParseTokenLst" /\ truth.family = "list" /\ Len(truth.toks) = 3
    /\ err = ErrHdrOk /\ offs = truth.end
    /\ msg.LastChunk.Val.V = truth.toks[3]
    /\ truth.toks[2].Offs - (truth.toks[1].Offs + truth.toks[1].Len) = 7

(* C30: ParseTokenLst rejects what its flags do not allow with BadChar  *)
(* at the offending byte: a second token separated only by whitespace   *)
(* when SpSep is off (offset of that token's first byte), ',' when      *)
(* CommaSep is off, '/' inside a token when AllowSlash is off, ';' when *)
(* AllowParams is off (offset of that character); with the flag on, the *)
(* same input is accepted.                                              *)
C30_FlagRejects ==
    [][ (op' = "ParseTokenLst" /\ truth.family = "flag") =>
            IF truth.bad >= 0 THEN err' = ErrHdrBadChar /\ offs' = truth.bad
            ELSE FoundToken(TokenAt(offs), msg'.LastChunk.Val, offs', err') ]_vars

(* "ab/c" without AllowSlash: BadChar at the slash *)
C30_Witness ==
    /\ op = "ParseTokenLst" /\ truth.family = "flag" /\ truth.bad = truth.start + 2
    /\ At(buf, truth.bad) = "/" /\ ~HasF(flg, PTokAllowSlashF)
    /\ err = ErrHdrBadChar /\ offs = truth.bad

(* "ab/c" with AllowSlash: one token, Ok at the end of the line *)
C30_WitnessAccepted ==
    /\ op = "ParseTokenLst" /\ truth.family = "flag" /\ truth.bad = -1
    /\ At(buf, truth.start + 2) = "/" /\ HasF(flg, PTokAllowSlashF)
    /\ err = ErrHdrOk /\ offs = truth.end /\ msg.LastChunk.Val.V = truth.toks[1]

(* the offset of the first '/' of the token, 0 when it has none *)
FirstSlash(v) ==
    IF \E i \in v.Offs..(v.Offs + v.Len - 1) : At(buf, i) = "/"
        THEN CHOOSE i \in v.Offs..(v.Offs + v.Len - 1) :
                At(buf, i) = "/" /\ \A k \in v.Offs..(i - 1) : At(buf, k) # "/"
    ELSE 0

(* C31: with AllowSlash on, for a token that contains one or more '/',  *)
(* SepOffs is the offset of the first '/' of the token (later slashes   *)
(* do not change it), so that Name() is the part before the first '/'   *)
(* and Suffix() the part after it.                                      *)
C31_FirstSlash ==
    (/\ op = "ParseTokenLst" /\ truth.family = "slash"
     /\ err \in {ErrHdrOk, ErrHdrMoreValues}
     /\ FirstSlash(msg.LastChunk.Val.V) # 0) =>
        /\ msg.LastChunk.Val.SepOffs = FirstSlash(msg.LastChunk.Val.V)
        /\ PTokenName(msg.LastChunk.Val) =
                Span(msg.LastChunk.Val.V.Offs, FirstSlash(msg.LastChunk.Val.V))
        /\ PTokenSuffix(msg.LastChunk.Val) =
                Span(FirstSlash(msg.LastChunk.Val.V) + 1,
                     msg.LastChunk.Val.V.Offs + msg.LastChunk.Val.V.Len)

(* the token "a/b/c" found with AllowSlash, its span whole *)
C31_Witness ==
    /\ op = "ParseTokenLst" /\ truth.family = "slash" /\ HasF(flg, PTokAllowSlashF)
    /\ err = ErrHdrOk /\ offs = truth.end
    /\ msg.LastChunk.Val.V.Len = 5
    /\ FirstSlash(msg.LastChunk.Val.V) = msg.LastChunk.Val.V.Offs + 1
    /\ msg.LastChunk.Val.SepOffs # 0

(* what a call on a buffer that ends inside the token list returns: the *)
(* j-th token; before the last token MoreValues at the next one; at the *)
(* last token, or with no token at all, the end of the buffer decides   *)
EndOfInput(j, pt, o, e) ==
    IF Len(truth.toks) = 0 THEN
        IF HasF(flg, PTokInputEndF) THEN e = ErrHdrEmpty /\ o = truth.end
        ELSE e = ErrHdrMoreBytes
    ELSE IF j = 0 THEN FALSE
    ELSE IF j < Len(truth.toks) THEN
        pt.V = truth.toks[j] /\ e = ErrHdrMoreValues /\ o = truth.toks[j + 1].Offs
    ELSE IF HasF(flg, PTokInputEndF) THEN
        pt.V = truth.toks[j] /\ e = ErrHdrOk /\ o = truth.end
    ELSE e = ErrHdrMoreBytes

(* C32: with the InputEnd flag, when the buffer ends while ParseTokenLst *)
(* is inside a token or in the whitespace/separators after the last      *)
(* token (with or without a final CR, LF or CRLF), the token span is     *)
(* closed at its last character and the call returns Ok with offset      *)
(* len(buf); if no token was seen before the end it returns Empty;       *)
(* without InputEnd the same buffers give MoreBytes.                     *)
C32_InputEnd ==
    [][ (op' = "ParseTokenLst" /\ truth.family = "end") =>
            EndOfInput(TokenAt(offs), msg'.LastChunk.Val, offs', err') ]_vars

(* "a, bar" with InputEnd: the second call ends inside the token bar and *)
(* returns Ok at len(buf) with the span of bar                           *)
C32_Witness ==
    /\ op = "ParseTokenLst" /\ truth.family = "end" /\ HasF(flg, PTokInputEndF)
    /\ Len(truth.toks) = 2 /\ truth.toks[2].Offs + 3 = BLen(buf)
    /\ err = ErrHdrOk /\ offs = BLen(buf) /\ msg.LastChunk.Val.V = truth.toks[2]

(***************************************************************************)
(* ParseFLine on the growing slices of one first line                      *)
(***************************************************************************)

(* request and reply lines, among them replies whose version has more *)
(* digits than HTTP/1.1                                               *)
FLineTexts ==
    { "GET http://foo.bar/t.html HTTP/1.0\r\n", "OPTIONS * HTTP/1.1\r\n",
      "PUT /x.html HTTP/2.0\r\n", "X /q HTTP/1.1\n",
      "HTTP/1.0 100 Continue\r\n", "HTTP/1.1 500 Internal  \t \r\n",
      "HTTP/2.0 101 \r\n", "HTTP/2 505 HTTP Version\r\n", "HTTP/1.1 200 Ok\n",
      "HTTP/1.1111 200 OK\r\n", "HTTP/1.11111111 200 OK\r\n", "HTTP/111111111 204 No\r\n" }

(* truth.one is the result of the single call on the whole buffer *)
InitFL ==
    /\ \E t \in FLineTexts, pad \in {0, 2}, x \in {"", "Host"} :
        /\ buf = [pad |-> pad, s |-> t \o x]
        /\ truth = [start |-> pad, end |-> pad + Len(t),
                    one |-> ParseFLine([pad |-> pad, s |-> t \o x], pad, PFLineZero)]
        /\ blen = pad
        /\ offs = pad
    /\ msg = PMsgZero
    /\ err = NoErr
    /\ op = "Init"
    /\ flg = 0
    /\ pure = TRUE
    /\ bt = BtNone

(* o, err = ParseFLine(buf[:end], o, &fl) *)
FLineCalled(n, r) ==
    /\ blen' = blen + n
    /\ msg' = [msg EXCEPT !.FL = r.pl]
    /\ offs' = r.o
    /\ err' = r.err
    /\ op' = "ParseFLine"
    /\ UNCHANGED <<buf, truth, flg, pure, bt>>

CallParseFLine(n) ==
    /\ err \in {NoErr, ErrHdrMoreBytes}
    /\ FLineCalled(n, ParseFLine(Vis(blen + n), offs, msg.FL))

NextFL == \E n \in 0..(BLen(buf) - blen) : CallParseFLine(n)

SpecFL == InitFL /\ [][NextFL]_vars

(* C33: ParseFLine is resumable: for every buffer on which a single call *)
(* returns Ok at offset end, and every sequence of growing prefixes      *)
(* shorter than end, each call on a prefix (same PFLine, offset returned *)
(* by the previous call) returns MoreBytes and leaves Parsed() false,    *)
(* and the final call on the full buffer returns Ok at end with the same *)
(* status, method number and spans as the single call; ParseFLine never  *)
(* returns Ok before the line terminator is in the buffer.               *)
C33_FLineResumable ==
    (op = "ParseFLine" /\ truth.one.err = ErrHdrOk /\ truth.one.o = truth.end) =>
        IF blen < truth.end
            THEN err = ErrHdrMoreBytes /\ ~FLParsed(msg.FL)
        ELSE (blen = BLen(buf)) =>
            /\ err = ErrHdrOk /\ offs = truth.end
            /\ msg.FL = truth.one.pl

(* a reply parsed in pieces to the same result as the single call *)
C33_Witness ==
    /\ op = "ParseFLine" /\ blen = BLen(buf) /\ truth.one.err = ErrHdrOk
    /\ err = ErrHdrOk /\ offs = truth.end /\ msg.FL = truth.one.pl
    /\ msg.FL.Status = 500 /\ msg.FL.Reason.Len > 0

(* C37: ParseFLine never reads the buffer at an index >= len(buf): for   *)
(* every buffer content and every start offset, in particular for        *)
(* response lines whose version field has any number of digits and whose *)
(* status field starts anywhere up to the end of the buffer, each byte   *)
(* access is preceded by a sufficient length check (otherwise MoreBytes  *)
(* is returned).                                                         *)
C37_FLineInBounds ==
    (op = "ParseFLine") => err # ErrPanic

(* a reply with a version of nine digits, parsed on the whole line *)
C37_Witness ==
    /\ op = "ParseFLine" /\ blen = BLen(buf) /\ err = ErrHdrOk /\ offs = truth.end
    /\ msg.FL.Version.Len = 14 /\ msg.FL.Status = 204

(***************************************************************************)
(* ParseHdrLine and ParseHeaders on the growing slices of a header block,  *)
(* against the call on the whole block                                     *)
(***************************************************************************)

(* header blocks without their final empty line: generic and dedicated *)
(* value parsers, single values and lists, folds, repeated kinds       *)
ResumeBlocks ==
    { "Host: a.b\r\n",
      "Foo :  generic\r\n header \r\nhOsT:b\r\n",
      "Content-Length: 12\r\nTransfer-Encoding: gzip, chunked\r\n",
      "Upgrade:a/1 ,\r\n b/2\r\nupgrade: c\r\n",
      "Sec-WebSocket-Protocol: chat, sip\r\nX: y\r\n",
      "sec-websocket-extensions: a; b=1, c\r\nServer: S/1 \tT\r\n",
      "transfer-encoding:\tchunked \r\nContent-Length : 007\r\nHost: h\r\n" }

(* the function under test: one header line or the whole block *)
ResumeFns == {"ParseHdrLine", "ParseHeaders"}

(* what a call returned, whichever the function: status, offset, the *)
(* header of the line, the header list                               *)
ResumeRes(fn, r) ==
    [err |-> r.err, o |-> r.o,
     h |-> IF fn = "ParseHdrLine" THEN r.h ELSE HdrZero,
     hl |-> IF fn = "ParseHeaders" THEN r.hl ELSE HdrLstNew(0),
     hb |-> r.hb]

(* the call on the whole buffer, with a fresh Hdr or HdrLst *)
ResumeOne(fn, b, o, cap, hb) ==
    IF fn = "ParseHdrLine" THEN ResumeRes(fn, ParseHdrLine(b, o, HdrZero, hb))
    ELSE ResumeRes(fn, ParseHeaders(b, o, HdrLstNew(cap), hb))

InitRS ==
    /\ \E t \in ResumeBlocks, fn \in ResumeFns, cap \in {0, 2}, pad \in {0, 2}, phb \in BOOLEAN :
        /\ buf = [pad |-> pad, s |-> t \o CRLF]
        /\ truth = [start |-> pad, phb |-> phb, fn |-> fn,
                    one |-> ResumeOne(fn, [pad |-> pad, s |-> t \o CRLF], pad, cap,
                                      IF phb THEN PHdrValsNew(2) ELSE PHBNil)]
        /\ msg = [PMsgInit(cap) EXCEPT !.PV = PHdrValsNew(2)]
        /\ blen = pad
        /\ offs = pad
    /\ err = NoErr
    /\ op = "Init"
    /\ flg = 0
    /\ pure = TRUE
    /\ bt = BtNone

NextRS ==
    \E n \in 0..(BLen(buf) - blen) :
        /\ n <= MaxStep \/ n = BLen(buf) - blen
        /\ \/ truth.fn = "ParseHdrLine" /\ CallParseHdrLine(n)
           \/ truth.fn = "ParseHeaders" /\ CallParseHeaders(n)

SpecRS == InitRS /\ [][NextRS]_vars

(* C34: ParseHdrLine and ParseHeaders are resumable: for every header    *)
(* block and every sequence of growing prefixes that end before the      *)
(* expected end offset, each call on a prefix (same Hdr or HdrLst, same  *)
(* aggregate, the previously returned offset) returns MoreBytes, and the *)
(* final call on the whole buffer returns the status, offset, kind, name *)
(* span, value span and header count of the unfragmented parse.          *)
C34_HdrResumable ==
    [][ (op' \in ResumeFns) =>
            /\ (blen' < truth.one.o) => (err' = ErrHdrMoreBytes)
            /\ (blen < truth.one.o /\ blen' = BLen(buf)) =>
                    /\ err' = truth.one.err
                    /\ offs' = truth.one.o
                    /\ truth.fn = "ParseHdrLine" =>
                            /\ msg'.HL.hdr.Type = truth.one.h.Type
                            /\ msg'.HL.hdr.Name = truth.one.h.Name
                            /\ msg'.HL.hdr.Val = truth.one.h.Val
                    /\ truth.fn = "ParseHeaders" =>
                            /\ msg'.HL.N = truth.one.hl.N
                            /\ msg'.HL.Hdrs = truth.one.hl.Hdrs
                            /\ msg'.HL.PFlags = truth.one.hl.PFlags ]_vars

(* the block with a folded Upgrade list parsed by ParseHeaders up to the *)
(* end of the buffer: both headers and the three protocols, as in the   *)
(* result of the call on the whole block                                *)
C34_Witness ==
    /\ op = "ParseHeaders" /\ truth.fn = "ParseHeaders" /\ truth.phb
    /\ blen = BLen(buf) /\ err = ErrHdrOk /\ truth.one.err = ErrHdrOk
    /\ offs = truth.one.o /\ msg.HL.N = 2 /\ msg.HL.Hdrs = truth.one.hl.Hdrs
    /\ Len(msg.HL.Hdrs) = 2 /\ msg.HL.Hdrs[1].Type = HdrUpgrade
    /\ msg.PV.Upgrade.N = 3

(***************************************************************************)
(* ParseTokenParam on one parameter and what follows it                    *)
(***************************************************************************)

(* the parts of a parameter: whitespace in front, name, the text between *)
(* name and value with the value, whitespace after                        *)
ParamLead == {"", " ", "\t "}
ParamNames == {"p1", "test.a-b"}
ParamVals == {<<"", "">>, <<"=", "v2">>, <<" = ", "v">>, <<"=\t", "v-5.x">>}
ParamTrail == {"", " ", " \t", " \r\n "}

(* what follows the parameter: the kind of ending, its text, the text of *)
(* a second parameter, and the parsing flags                             *)
ParamEnds ==
    {<<"eoh", "\r\nX", "", f>> : f \in {0, PTokCommaSepF, PTokSpSepF, PTokCommaSepF + PTokSpSepF}}
    \cup {<<"eohEnd", "\r\n", "", f>> : f \in {PTokInputEndF, PTokInputEndF + PTokCommaSepF}}
    \cup {<<"end", "", "", f>> : f \in {PTokInputEndF, PTokInputEndF + PTokSpSepF}}
    \cup {<<"semi", ";" \o w, "foo=bar", f>> :
                w \in {"", " "}, f \in {0, PTokCommaSepF, PTokSpSepF}}
    \cup {<<"comma", ",foo\r\nX", "", f>> : f \in {PTokCommaSepF, PTokCommaSepF + PTokSpSepF}}
    \cup {<<"space", "foo\r\nX", "", f>> : f \in {PTokSpSepF, PTokCommaSepF + PTokSpSepF}}

(* what a call is expected to return: status, offset, the three spans *)
(* (hasVal: FALSE when the parameter has no value)                    *)
ParamExp(e, o, nameAt, name, valAt, val) ==
    [err |-> e, o |-> o,
     Name |-> Span(nameAt, nameAt + Len(name)),
     hasVal |-> val # "",
     Val |-> Span(valAt, valAt + Len(val)),
     All |-> Span(nameAt, IF val # "" THEN valAt + Len(val) ELSE nameAt + Len(name))]

(* the caller's PTokParam is kept in LastParam of the Val of msg.LastChunk *)
InitTP ==
    /\ \E ld \in ParamLead, nm \in ParamNames, v \in ParamVals, tr \in ParamTrail,
          e \in ParamEnds, pad \in {0, 2} :
        LET nameAt == pad + Len(ld)
            valAt == nameAt + Len(nm) + Len(v[1])
            after == valAt + Len(v[2]) + Len(tr)
            nxt == after + Len(e[2])
        IN /\ e[1] = "space" => tr # ""
           /\ buf = [pad |-> pad,
                     s |-> ld \o nm \o v[1] \o v[2] \o tr \o e[2] \o e[3]
                              \o (IF e[1] = "semi" THEN "\r\nX" ELSE "")]
           /\ truth = [start |-> pad, kind |-> e[1],
                       exp |-> <<ParamExp(CASE e[1] \in {"eoh", "eohEnd", "end"} -> ErrHdrEOH
                                            [] e[1] = "semi" -> ErrHdrMoreValues
                                            [] OTHER -> ErrHdrOk,
                                          CASE e[1] \in {"eoh", "eohEnd"} -> after + 2
                                            [] e[1] = "semi" -> nxt
                                            [] e[1] = "space" -> after - 1
                                            [] OTHER -> after,
                                          nameAt, nm, valAt, v[2]),
                                 ParamExp(ErrHdrEOH, nxt + 9, nxt, "foo", nxt + 4, "bar")>>]
           /\ flg = e[4]
           /\ blen = pad + Len(ld \o nm \o v[1] \o v[2] \o tr \o e[2] \o e[3])
                        + (IF e[1] = "semi" THEN 3 ELSE 0)
           /\ offs = pad
    /\ msg = PMsgZero
    /\ err = NoErr
    /\ op = "Init"
    /\ pure = TRUE
    /\ bt = BtNone

(* o, err = ParseTokenParam(buf, o, &param, flags) *)
TokenParamCalled(r) ==
    /\ msg' = [msg EXCEPT !.LastChunk.Val.LastParam = r.pm]
    /\ offs' = r.o
    /\ err' = r.err
    /\ op' = "ParseTokenParam"
    /\ UNCHANGED <<buf, truth, blen, flg, pure, bt>>

(* the first call, and the call after MoreValues with the parameter reset *)
CallParseTokenParam ==
    /\ err \in {NoErr, ErrHdrMoreValues}
    /\ TokenParamCalled(ParseTokenParam(buf, offs,
            IF err = ErrHdrMoreValues THEN PTokParamZero
            ELSE msg.LastChunk.Val.LastParam, flg))

NextTP == CallParseTokenParam

SpecTP == InitTP /\ [][NextTP]_vars

(* the call returned what e describes *)
ParamResult(e, r, pm) ==
    /\ r[1] = e.err
    /\ r[2] = e.o
    /\ pm.All = e.All
    /\ pm.Name = e.Name
    /\ IF e.hasVal THEN pm.Val = e.Val ELSE pm.Val.Len = 0

(* C35: ParseTokenParam on name [WS* = WS* value] returns EOH with the   *)
(* offset just past the line end (len(buf) with InputEnd) when the       *)
(* header ends after the parameter, MoreValues with the offset of the    *)
(* first byte of the next parameter when ';' follows, and Ok with the    *)
(* offset of the token separator when a list separator allowed by the    *)
(* flags follows (the ',' for CommaSep, the last whitespace byte before  *)
(* the next token for SpSep); All, Name and Val are the spans of the     *)
(* parameter, its name and its value without surrounding whitespace, Val *)
(* empty when there is no value.                                         *)
C35_TokenParam ==
    [][ (op' = "ParseTokenParam") =>
            ParamResult(truth.exp[IF offs = truth.start THEN 1 ELSE 2],
                        <<err', offs'>>, msg'.LastChunk.Val.LastParam) ]_vars

(* "p1 = v" followed by whitespace and the token foo, SpSep: Ok at the *)
(* last byte of the whitespace                                         *)
C35_Witness ==
    /\ op = "ParseTokenParam" /\ truth.kind = "space" /\ err = ErrHdrOk
    /\ offs = truth.exp[1].o /\ At(buf, offs) = "\t" /\ At(buf, offs + 1) = "f"
    /\ msg.LastChunk.Val.LastParam.All = truth.exp[1].All
    /\ msg.LastChunk.Val.LastParam.All.Len = 6
    /\ msg.LastChunk.Val.LastParam.Val.Len = 1

(***************************************************************************)
(* ParseHeaders on blocks that have header lines with an empty value       *)
(***************************************************************************)

(* header blocks without their final empty line, and their number of lines *)
EmptyValBlocks ==
    { <<"Foo:\r\nHost: a\r\n", 2>>,
      <<"Host: a\r\nX-Bar: \r\nServer:\r\n", 3>>,
      <<"Upgrade:\r\nHost: a\r\n", 2>>,
      <<"Host: a\r\nupgrade: \r\nX: y\r\n", 3>>,
      <<"Transfer-Encoding:\r\nContent-Length: 3\r\n", 2>>,
      <<"Host: b\r\nSec-WebSocket-Protocol:  \r\nFoo: x\r\n", 3>>,
      <<"Sec-WebSocket-Extensions:\r\nHost: a\r\n", 2>>,
      <<"Host: a\r\nSec-WebSocket-Extensions:\t\r\n", 2>> }

InitEV ==
    /\ \E c \in EmptyValBlocks, cap \in {0, 4}, pad \in {0, 2}, phb \in BOOLEAN :
        /\ buf = [pad |-> pad, s |-> c[1] \o CRLF \o "abc"]
        /\ truth = [start |-> pad, phb |-> phb, n |-> c[2], end |-> pad + Len(c[1]) + 2]
        /\ msg = [PMsgInit(cap) EXCEPT !.PV = PHdrValsNew(2)]
        /\ blen = pad
        /\ offs = pad
    /\ err = NoErr
    /\ op = "Init"
    /\ flg = 0
    /\ pure = TRUE
    /\ bt = BtNone

SpecEV == InitEV /\ [][NextHS]_vars

(* C36: ParseHeaders reports the end of the header block (Ok, or Empty)  *)
(* only at a line that is nothing but a line terminator: a header line   *)
(* with a name, a colon and an empty value, also one whose name has a    *)
(* dedicated token-list parser (Upgrade, Transfer-Encoding,              *)
(* Sec-WebSocket-Protocol, Sec-WebSocket-Extensions), is never taken for *)
(* the end of the block, and the header lines after it are still parsed. *)
C36_EmptyValueNotEnd ==
    (op = "ParseHeaders" /\ err \in {ErrHdrOk, ErrHdrEmpty}) =>
        /\ offs = truth.end
        /\ At(buf, offs - 4) = "\r" /\ At(buf, offs - 3) = "\n"
        /\ msg.HL.N = truth.n

(* the block Host, upgrade with an empty value, X parsed to its empty line *)
(* without a header-values aggregate: three headers                       *)
C36_Witness ==
    /\ op = "ParseHeaders" /\ err = ErrHdrOk /\ offs = truth.end /\ ~truth.phb
    /\ truth.n = 3 /\ msg.HL.N = 3 /\ Len(msg.HL.Hdrs) = 4
    /\ msg.HL.Hdrs[2].Type = HdrUpgrade /\ msg.HL.Hdrs[2].Val.Len = 0
    /\ msg.HL.Hdrs[3].Type = HdrOther

(***************************************************************************)
(* Two chunked bodies that differ only in the bytes of the chunk data,     *)
(* consumed by SkipBody on the same growing slices.  The first body is in  *)
(* buf and msg; the second body is truth.twin, and its message, offset and *)
(* status are kept in bt.                                                  *)
(***************************************************************************)

(* the chunks of the first body and the data of the second body *)
TwinChunks ==
    { <<(<<Cnk("1\r\n", "x"), Cnk("0\r\n", "")>>), (<<"y", "">>)>>,
      <<(<<Cnk("2;e=1\r\n", "xy"), Cnk("1\r\n", "y"), Cnk("0\r\nA: b\r\n", "")>>),
        (<<"a\n", "\r", "">>)>>,
      <<(<<Cnk("03\r\n", "a\nb"), Cnk("0\r\n", "")>>), (<<"\r\n0", "">>)>>,
      <<(<<Cnk("A\r\n", "0123456789"), Cnk("0\r\n", "")>>), (<<"0\r\n\r\n01234", "">>)>>,
      <<(<<Cnk("1\r\n", "x"), Cnk("0\r\n", "")>>), (<<" ", "">>)>>,
      <<(<<Cnk("2\r\n", "xz"), Cnk("1\r\n", "x"), Cnk("0\r\n", "")>>), (<<"\tz", "x", "">>)>>,
      <<(<<Cnk("1\r\n", "x"), Cnk("2\r\n", "yz"), Cnk("0\r\nA: b\r\n", "")>>),
        (<<"x", " z", "">>)>> }

(* the chunks cs with the data ds *)
WithData(cs, ds) == [k \in 1..Len(cs) |-> Cnk(cs[k].h, ds[k])]

(* the slice b[:n] *)
SliceTo(b, n) == [pad |-> b.pad, s |-> SubSeq(b.s, 1, n - b.pad)]

InitTW ==
    /\ \E c \in TwinChunks, pc \in PadCaps :
        /\ buf = [pad |-> pc[1], s |-> CatChunks(c[1])]
        /\ truth = [start |-> pc[1], end |-> pc[1] + Len(CatChunks(c[1])),
                    twin |-> [pad |-> pc[1], s |-> CatChunks(WithData(c[1], c[2]))],
                    sp |-> \E k \in 1..Len(c[2]) :
                                c[2][k] # "" /\ SubSeq(c[2][k], 1, 1) \in {" ", "\t"}]
        /\ blen = pc[1]
        /\ offs = pc[1]
        /\ msg = [PMsgZero EXCEPT !.state = MsgBodyChunked, !.Body = PFSet(pc[1], pc[1])]
        /\ bt = [m |-> [PMsgZero EXCEPT !.state = MsgBodyChunked, !.Body = PFSet(pc[1], pc[1])],
                 o |-> pc[1], err |-> NoErr]
    /\ err = NoErr
    /\ op = "Init"
    /\ flg = 0
    /\ pure = TRUE

(* SkipBody returned r for the first body and r2 for the second *)
TwinCalled(n, r, r2) ==
    /\ blen' = blen + n
    /\ msg' = r.m
    /\ offs' = r.o
    /\ err' = r.err
    /\ bt' = [m |-> r2.m, o |-> r2.o, err |-> r2.err]
    /\ op' = "SkipBody"
    /\ UNCHANGED <<buf, truth, flg, pure>>

(* o, err = SkipBody(buf[:end], o, &msg, 0) on both bodies, as long as *)
(* both ask for more bytes                                             *)
CallSkipTwins(n) ==
    /\ err \in {NoErr, ErrHdrMoreBytes}
    /\ bt.err \in {NoErr, ErrHdrMoreBytes}
    /\ TwinCalled(n, SkipBody(Vis(blen + n), offs, msg, 0),
                  SkipBody(SliceTo(truth.twin, blen + n), bt.o, bt.m, 0))

NextTW == \E n \in 0..(BLen(buf) - blen) : CallSkipTwins(n)

SpecTW == InitTW /\ [][NextTW]_vars

(* C38: chunk data is opaque to framing: for two buffers with identical  *)
(* chunk headers and trailers and chunk data of identical lengths but    *)
(* different bytes (data that begins with SP or HTAB included), SkipBody *)
(* on the same slices returns the same statuses and offsets and ends in  *)
(* the same state.                                                       *)
C38_DataOpaque ==
    (op = "SkipBody") => (err = bt.err /\ offs = bt.o /\ msg.state = bt.m.state)

(* two bodies of three chunks, the data "xy", "y" and "a\n", "\r", both *)
(* consumed to the end with Ok                                          *)
C38_Witness ==
    /\ op = "SkipBody" /\ err = ErrHdrOk /\ bt.err = ErrHdrOk
    /\ offs = truth.end /\ bt.o = truth.end
    /\ msg.state = MsgFIN /\ bt.m.state = MsgFIN
    /\ buf.s # truth.twin.s /\ Len(buf.s) = 28

(***************************************************************************)
(* Deferred body consumption: ParseMsg with MsgSkipBodyF up to the body    *)
(* start, then SkipBody without the flag                                   *)
(***************************************************************************)

(* ParseMsg with MsgSkipBodyF on growing slices until it returns Ok *)
CallParseMsgToBody(n) ==
    /\ op \in {"Init", "ParseMsg"}
    /\ err \in {NoErr, ErrHdrMoreBytes}
    /\ CallParseMsg(n, MsgSkipBodyF)

(* then SkipBody at the returned offset, as long as it asks for more    *)
(* bytes; MsgNoMoreDataF only on a call that passes the whole buffer    *)
CallSkipBodyDeferred(n, f) ==
    /\ (op = "ParseMsg" /\ err = ErrHdrOk) \/ (op = "SkipBody" /\ err = ErrHdrMoreBytes)
    /\ HasF(f, MsgNoMoreDataF) => blen + n = BLen(buf)
    /\ CallSkipBody(n, f)

NextDF ==
    \/ \E n \in Steps : CallParseMsgToBody(n)
    \/ \E n \in Steps, f \in {0, MsgNoMoreDataF} : CallSkipBodyDeferred(n, f)

SpecDF == Init /\ [][NextDF]_vars

(* ParseMsg without MsgSkipBodyF on the slice and with the flags of the *)
(* last call, on a fresh message                                        *)
DirectParse == ParseMsg(Vis(blen), truth.start, PMsgInit(Len(msg.HL.Hdrs)), flg)

(* C39: deferred body consumption equals direct consumption: ParseMsg   *)
(* with the SkipBody flag until it returns Ok at b, then SkipBody(buf,  *)
(* b, msg, flags without SkipBody) until completion, yields the same    *)
(* final offset, status, body span and final state Fin as ParseMsg      *)
(* without the flag.                                                    *)
C39_DeferredEqualsDirect ==
    (op = "SkipBody" /\ (err = ErrHdrOk \/ DirectParse.err = ErrHdrOk)) =>
        /\ err = ErrHdrOk /\ DirectParse.err = ErrHdrOk
        /\ offs = DirectParse.o
        /\ msg.Body = DirectParse.m.Body
        /\ msg.state = MsgFIN /\ DirectParse.m.state = MsgFIN

(* a message with Content-Length 3 whose body was consumed by SkipBody *)
(* after ParseMsg stopped at the body start                            *)
C39_Witness ==
    /\ op = "SkipBody" /\ err = ErrHdrOk /\ msg.state = MsgFIN
    /\ truth.framing = "clen" /\ truth.end = truth.hend + 3
    /\ offs = truth.end /\ msg.Body = Span(truth.hend, truth.end)
    /\ DirectParse.o = offs /\ DirectParse.m.Body = msg.Body

(* the body states and the framing a body state stands for *)
BodyStates == {MsgNoBody, MsgBodyCLen, MsgBodyChunked, MsgBodyChunkedData, MsgBodyEOF}

FramingOf(s) == IF s = MsgBodyChunkedData THEN MsgBodyChunked ELSE s

(* the place of a state in the order Init, FirstLine, Headers, BodyInit, *)
(* a body state, Fin                                                     *)
StateRank(s) ==
    CASE s \in {MsgInit, MsgFLine, MsgHeaders, MsgBodyInit} -> s
      [] s \in BodyStates -> 4
      [] s = MsgFIN -> 5
      [] OTHER -> 6

(* C40: across any sequence of ParseMsg and SkipBody calls on one       *)
(* message the state only moves forward in the order Init, FirstLine,   *)
(* Headers, BodyInit, one body state (NoBody, BodyCLen, BodyEOF, or     *)
(* BodyChunked and BodyChunkedData alternating), Fin; the framing is    *)
(* chosen once and never changes; Fin and Err are left only by Reset.   *)
C40_StateOrder ==
    [][ (op' \in {"ParseMsg", "SkipBody"}) =>
            /\ msg.state \in {MsgFIN, MsgErr} => msg'.state = msg.state
            /\ msg'.state \in {MsgInit, MsgFLine, MsgHeaders, MsgBodyInit} \cup BodyStates
                              \cup {MsgFIN, MsgErr}
            /\ msg'.state # MsgErr => StateRank(msg'.state) >= StateRank(msg.state)
            /\ (msg.state \in BodyStates /\ msg'.state \in BodyStates) =>
                    FramingOf(msg'.state) = FramingOf(msg.state) ]_vars

(* a chunked message left by SkipBody inside the data of a chunk *)
C40_Witness ==
    /\ op = "SkipBody" /\ msg.state = MsgBodyChunkedData /\ err = ErrHdrMoreBytes
    /\ truth.framing = "chunked" /\ offs > truth.hend

====
